---- MODULE Spec2Model ----
(***************************************************************************)
(* Evaluation engine of the rareplanes analyzer: the orchestrator of       *)
(* hooks/useEvaluation.ts (runEvaluation, rerunImageEvaluation,            *)
(* stopEvaluation, resetEvaluation), the scoring and cost functions of     *)
(* services/evalService.ts and the return contract of                      *)
(* services/llmApiService.ts.                                              *)
(*                                                                         *)
(* Conventions.  An optional field (TypeScript `x?: T`) is a sequence of   *)
(* length at most one: <<>> is undefined, <<v>> is the value v.  A count,   *)
(* a class id and an accuracy are JavaScript numbers that need not be      *)
(* integers: each is a fraction <<n, d>> in lowest terms with d > 0;       *)
(* <<0, 0>> is NaN.  Durations are integers (ms) and costs are integers    *)
(* (micro-dollars, so that the per-token prices are integers).  Image      *)
(* indexes are the code's 0-based indexes; sequences are 1-based, so       *)
(* image i is images[i + 1].                                               *)
(***************************************************************************)
EXTENDS Integers, Sequences, FiniteSets, TLC

\* ------------------------------------------------------------------ bounds
\* number of images of the generated sample
NumImages == 2
\* number of calls of runEvaluation, rerunImageEvaluation, stopEvaluation and
\* resetEvaluation the user makes in one behaviour
MaxCalls == 2

\* ------------------------------------------------------- program constants
maxRetries == 3
BackoffMs == 1000
InputCostPer1k == 5
OutputCostPer1k == 15
TileTokens == 170
TilePixels == 262144
DefaultDimension == 1024
MaxClassId == 6

ModelIds == {"A"}
ImageIdx == 0 .. (NumImages - 1)
\* every call may still be in flight when the next one is made
LoopIds == 1 .. MaxCalls
RerunIds == 1 .. MaxCalls

\* ---------------------------------------------------------------- fractions
RECURSIVE GCD(_, _)
GCD(a, b) == IF b = 0 THEN a ELSE GCD(b, a % b)

Min(a, b) == IF a <= b THEN a ELSE b
Max(a, b) == IF a >= b THEN a ELSE b

\* n / d as the code's floating division: 0 / 0 is NaN
Frac(n, d) ==
    IF d = 0 THEN <<0, 0>>
    ELSE IF d < 0 THEN LET g == GCD(-n, -d) IN <<(-n) \div g, (-d) \div g>>
    ELSE LET g == GCD(n, d) IN <<n \div g, d \div g>>

NaN == <<0, 0>>
Zero == <<0, 1>>
One == <<1, 1>>
IsNaN(q) == q[2] = 0
FracAdd(p, q) == IF IsNaN(p) \/ IsNaN(q) THEN NaN ELSE Frac(p[1] * q[2] + q[1] * p[2], p[2] * q[2])
FracMul(p, q) == IF IsNaN(p) \/ IsNaN(q) THEN NaN ELSE Frac(p[1] * q[1], p[2] * q[2])
FracDivInt(p, k) == IF IsNaN(p) THEN NaN ELSE Frac(p[1], p[2] * k)
FracLeq(p, q) == ~IsNaN(p) /\ ~IsNaN(q) /\ p[1] * q[2] <= q[1] * p[2]
\* p / q for q # 0 (a division by 0 does not occur in the code modelled)
FracDiv(p, q) == IF IsNaN(p) \/ IsNaN(q) THEN NaN ELSE Frac(p[1] * q[2], p[2] * q[1])
\* Math.min and Math.max: NaN when an argument is NaN
FracMin(p, q) == IF IsNaN(p) \/ IsNaN(q) THEN NaN ELSE IF FracLeq(p, q) THEN p ELSE q
FracMax(p, q) == IF IsNaN(p) \/ IsNaN(q) THEN NaN ELSE IF FracLeq(p, q) THEN q ELSE p
\* the number i and the list of numbers s, for integers
FromInt(i) == <<i, 1>>
FromInts(s) == [k \in 1 .. Len(s) |-> FromInt(s[k])]
IsInteger(q) == q[2] = 1

\* ------------------------------------------------------------ optional values
Undefined == <<>>
Some(v) == <<v>>
IsDefined(o) == Len(o) > 0
\* `o || dflt` for an optional number: undefined and 0 both give dflt
OrElse(o, dflt) == IF IsDefined(o) /\ o[1] # 0 THEN o[1] ELSE dflt

RECURSIVE SumSeq(_)
SumSeq(s) == IF Len(s) = 0 THEN 0 ELSE Head(s) + SumSeq(Tail(s))

RECURSIVE FracSum(_)
FracSum(s) == IF Len(s) = 0 THEN Zero ELSE FracAdd(Head(s), FracSum(Tail(s)))

RECURSIVE CountOf(_, _)
CountOf(s, c) == IF Len(s) = 0 THEN 0 ELSE (IF Head(s) = c THEN 1 ELSE 0) + CountOf(Tail(s), c)

Range(s) == {s[k] : k \in 1 .. Len(s)}

\* ------------------------------------------------------------ scoring engine
\* [...s].sort((a, b) => a - b) for a list of numbers without NaN
RECURSIVE Insert(_, _)
Insert(x, s) ==
    IF Len(s) = 0 THEN <<x>>
    ELSE IF FracLeq(x, Head(s)) THEN <<x>> \o s
    ELSE <<Head(s)>> \o Insert(x, Tail(s))

RECURSIVE SortNumbers(_)
SortNumbers(s) == IF Len(s) = 0 THEN <<>> ELSE Insert(Head(s), SortNumbers(Tail(s)))

\* a matcher that compares the two lists position by position
PositionalMatches(allClasses, actual, predicted) ==
    Cardinality({k \in 1 .. Min(Len(actual), Len(predicted)) : actual[k] = predicted[k]})

\* allClasses.forEach: the sum over the class ids of the smaller of the two
\* occurrence counts
RECURSIVE CorrectMatches(_, _, _)
CorrectMatches(allClasses, actual, predicted) ==
    IF allClasses = {} THEN 0
    ELSE LET classId == CHOOSE c \in allClasses : TRUE
         IN Min(CountOf(actual, classId), CountOf(predicted, classId))
            + CorrectMatches(allClasses \ {classId}, actual, predicted)

\* calculateClassAccuracy(actual, predicted)
calculateClassAccuracy(actual, predicted) ==
    IF Len(actual) = 0 /\ Len(predicted) = 0 THEN One
    ELSE IF Len(actual) = 0 \/ Len(predicted) = 0 THEN Zero
    ELSE LET sortedActual == SortNumbers(actual)
             sortedPredicted == SortNumbers(predicted)
         IN IF /\ Len(sortedActual) = Len(sortedPredicted)
               /\ \A idx \in 1 .. Len(sortedActual) : sortedActual[idx] = sortedPredicted[idx]
            THEN One
            ELSE LET correctMatches ==
                         CorrectMatches(Range(actual) \cup Range(predicted),
                                        sortedActual, sortedPredicted)
                     minTotal == Min(Len(actual), Len(predicted))
                     maxTotal == Max(Len(actual), Len(predicted))
                 IN IF Len(actual) = Len(predicted)
                    THEN (IF maxTotal > 0 THEN Frac(correctMatches, maxTotal) ELSE Zero)
                    ELSE FracMul(Frac(correctMatches, maxTotal), Frac(minTotal, maxTotal))

\* a scorer whose count accuracy is the ratio predicted / actual
calculateImageScoreByRatio(actualCount, actualClasses, predictedCount, predictedClasses) ==
    [countAccuracy |->
        IF actualCount = Zero /\ predictedCount = Zero THEN One
        ELSE IF actualCount = Zero \/ predictedCount = Zero THEN Zero
        ELSE FracDiv(predictedCount, actualCount),
     classAccuracy |-> calculateClassAccuracy(actualClasses, predictedClasses)]

\* calculateImageScore(actualCount, actualClasses, predictedCount, predictedClasses)
calculateImageScore(actualCount, actualClasses, predictedCount, predictedClasses) ==
    [countAccuracy |->
        IF actualCount = Zero /\ predictedCount = Zero THEN One
        ELSE IF actualCount = Zero \/ predictedCount = Zero THEN Zero
        ELSE FracDiv(FracMin(actualCount, predictedCount),
                     FracMax(actualCount, predictedCount)),
     classAccuracy |-> calculateClassAccuracy(actualClasses, predictedClasses)]

\* ------------------------------------------------------------- cost estimator
CeilDiv(a, b) == (a + b - 1) \div b

\* calculateAPICost with the default prices, in micro-dollars:
\* (tokens / 1000) * pricePer1k dollars = tokens * pricePer1k micro-dollars
\* when the price per 1k tokens is given in thousandths of a dollar
calculateAPICost(imageWidth, imageHeight, promptTokens, responseTokens) ==
    LET imageTokens == CeilDiv(imageWidth * imageHeight, TilePixels) * TileTokens
        totalInputTokens == promptTokens + imageTokens
    IN totalInputTokens * InputCostPer1k + responseTokens * OutputCostPer1k


\* ------------------------------------------------------------ response texts
\* A JSON value, as far as the parser looks at it: its type and the number
\* Number(value) converts it to (NaN for a string that is not numeric).
JNumber(q) == [t |-> "number", q |-> q]
JString(q) == [t |-> "string", q |-> q]
JNull == [t |-> "null", q |-> Zero]
\* a key that the object does not have
JAbsent == [t |-> "undefined", q |-> NaN]

\* A response text is a tagged record.  kind "empty" is the empty string and
\* kind "error" the text `Error: <message>` written by the orchestrator; kind
\* "json" is a text JSON.parse accepts (as it is or after the fence and the
\* prose around the outermost braces are removed), a value of type `type`; for an
\* object, `count` is its count (or JAbsent), `key` the key that holds its list
\* ("objects", "aircraft", "classes", or "none" without a list) and `items` the
\* class values of the list's entries.  kind "text" is any other text: `tokens`
\* are its words and digit runs in order, a token being the keyword (count,
\* aircraft, plane, planes), a run of digits, or another word.
ResponseText(kind, type, count, key, items, tokens) ==
    [kind |-> kind, type |-> type, count |-> count, key |-> key, items |-> items,
     tokens |-> tokens]
EmptyText == ResponseText("empty", "none", JAbsent, "none", <<>>, <<>>)
ErrorText == ResponseText("error", "none", JAbsent, "none", <<>>, <<>>)
ObjectText(count, key, items) == ResponseText("json", "object", count, key, items, <<>>)
\* a JSON text that is not an object: null, a number, a string, an array
ValueText(type) == ResponseText("json", type, JAbsent, "none", <<>>, <<>>)
ProseText(tokens) == ResponseText("text", "none", JAbsent, "none", <<>>, tokens)
\* {"count": count, "classes": classes} with integers
JsonText(count, classes) ==
    ObjectText(JNumber(FromInt(count)), "classes",
               [k \in 1 .. Len(classes) |-> JNumber(FromInt(classes[k]))])

Keyword == [tok |-> "keyword", n |-> 0]
Word == [tok |-> "word", n |-> 0]
Digits(n) == [tok |-> "digits", n |-> n]

\* the non-empty contents a provider may answer with
Contents == {JsonText(2, <<0, 1>>)}

\* `content && content.trim() !== ''`
HasContent(reply) == reply.content.kind # "empty"

\* typeof id === 'number' && id >= 0 && id <= 6
IsValidClassId(id) ==
    id.t = "number" /\ FracLeq(Zero, id.q) /\ FracLeq(id.q, FromInt(MaxClassId))

\* the numbers of the list entries that pass the class id filter
ValidClasses(items) ==
    LET kept == SelectSeq(items, IsValidClassId)
    IN [k \in 1 .. Len(kept) |-> kept[k].q]

\* parseLLMResponse, catch branch: the count is the digit run that follows the
\* first keyword followed by one; the classes are the runs of one or two digits
\* whose number is in 0..6
TextExtraction(tokens) ==
    LET hits == {k \in 1 .. (Len(tokens) - 1) :
                    tokens[k].tok = "keyword" /\ tokens[k + 1].tok = "digits"}
        first == CHOOSE k \in hits : \A x \in hits : k <= x
        runs == SelectSeq(tokens, LAMBDA tk : tk.tok = "digits" /\ tk.n < 100
                                              /\ tk.n >= 0 /\ tk.n <= MaxClassId)
    IN [count |-> IF hits = {} THEN Zero ELSE FromInt(tokens[first + 1].n),
        classes |-> [k \in 1 .. Len(runs) |-> FromInt(runs[k].n)]]

\* parseLLMResponse(response).  JSON.parse throws for a text that is not JSON
\* and `parsed.count` throws for the value null: both end in the catch branch.
\* Of an object with a count and a list, the count is Number(parsed.count) and
\* the classes are the list's numbers in 0..6; the fallback does the same with a
\* count of 0 when the object has none.
parseLLMResponse(response) ==
    IF response.kind # "json" \/ response.type = "null"
    THEN TextExtraction(response.tokens)
    ELSE IF response.type # "object"
    THEN [count |-> Zero, classes |-> <<>>]
    ELSE IF response.count.t # "undefined" /\ response.key \in {"objects", "aircraft", "classes"}
    THEN [count |-> response.count.q, classes |-> ValidClasses(response.items)]
    ELSE [count |-> IF response.count.t # "undefined" THEN response.count.q ELSE Zero,
          classes |-> IF response.key = "none" THEN <<>> ELSE ValidClasses(response.items)]

\* ------------------------------------------------------------ provider adapter
\* LLMApiResponse: {content, error?, duration?, usage?}
Durations == {100}
ErrorReply(d) == [content |-> EmptyText, error |-> Some("error"), duration |-> d,
                  usage |-> Undefined]
ContentReply(c, d) == [content |-> c, error |-> Undefined, duration |-> d,
                       usage |-> Some([prompt_tokens |-> 100, completion_tokens |-> 10])]

\* analyzeImageWithLLM: every failure (unknown provider, missing key, transport
\* failure, non-2xx reply, empty reply) is caught and returned with content ''
\* and the error message; without an API key that is the only outcome
analyzeImageWithLLM(hasKey) ==
    IF hasKey
    THEN {ErrorReply(d) : d \in Durations} \cup
         {ContentReply(c, d) : c \in Contents, d \in Durations}
    ELSE {ErrorReply(d) : d \in Durations}

\* getImageDimensions: the natural size of the image, or 1024 x 1024 when the
\* image cannot be loaded; it never rejects
Dimensions == {<<DefaultDimension, DefaultDimension>>}

\* ------------------------------------------------------------------- state
VARIABLES
    modelEvaluations,   \* Record<modelId, ModelEvaluation>
    stopFlags,          \* stopFlags.current: modelId -> boolean (unset is FALSE)
    apiKey,             \* whether a credential is configured for the provider
    loops,              \* the runEvaluation calls in flight, by slot
    reruns,             \* the rerunImageEvaluation calls in flight, by slot
    rerunningImage,     \* App state: the image id whose rerun button is disabled
    userCalls,          \* number of calls the user has made so far
    config,             \* App state: the EvaluationConfig passed to runEvaluation
    call                \* the call of a pure function under examination, if any

\* the state of the useEvaluation hook and of the App around it
hookState == <<modelEvaluations, stopFlags, apiKey, loops, reruns, rerunningImage, userCalls,
               config>>
vars == <<hookState, call>>

\* ground truth of the sampled images (generateRandomSample: one class id per
\* object instance)
ActualClasses == <<(<<0>>), (<<0, 1>>), (<<>>)>>
ActualOf(i) == FromInts(ActualClasses[(i % Len(ActualClasses)) + 1])

\* an EvaluationImage as generateRandomSample creates it
SampleImage(i) ==
    [id |-> i,
     actualObjects |-> FromInt(Len(ActualOf(i))),
     actualClasses |-> ActualOf(i),
     status |-> "pending",
     predictedObjects |-> Undefined,
     predictedClasses |-> Undefined,
     llmResponse |-> Undefined,
     score |-> Undefined,
     apiDuration |-> Undefined,
     cost |-> Undefined]

\* generateSample: the ModelEvaluation created for each selected model
generateSample ==
    [m \in ModelIds |->
        [images |-> [k \in 1 .. NumImages |-> SampleImage(k - 1)],
         results |-> Undefined,
         isRunning |-> FALSE,
         currentImageIndex |-> 0,
         progress |-> Zero]]

\* the inter-call delays the user may configure
DelaySeconds == {0, 1}

\* no pure function is under examination
NoCall == [pc |-> "none"]

IdleLoop == [pc |-> "idle"]
IdleRerun == [pc |-> "idle"]

Init ==
    /\ modelEvaluations = generateSample
    /\ stopFlags = [m \in ModelIds |-> FALSE]
    /\ apiKey \in BOOLEAN
    /\ loops = [l \in LoopIds |-> IdleLoop]
    /\ reruns = [r \in RerunIds |-> IdleRerun]
    /\ rerunningImage = Undefined
    /\ userCalls = 0
    /\ config \in [apiDelaySeconds : DelaySeconds]
    /\ call = NoCall

\* ------------------------------------------------------------ state updates
\* an update that writes the entry under every key of the record
SetEveryEvaluation(prev, modelId, entry) ==
    [x \in (DOMAIN prev) \cup {modelId} |-> entry]

\* {...prev, [modelId]: entry}
SetEvaluation(prev, modelId, entry) ==
    [x \in (DOMAIN prev) \cup {modelId} |-> IF x = modelId THEN entry ELSE prev[x]]

Percent(i, total) == Frac(i * 100, total)
Hundred == Frac(100, 1)

\* the record stopEvaluation and resetEvaluation map every image to
WipeImage(img) ==
    [img EXCEPT !.status = "pending",
                !.score = Undefined,
                !.predictedObjects = Some(Zero),
                !.predictedClasses = Some(<<>>),
                !.llmResponse = Some(EmptyText),
                !.apiDuration = Some(0),
                !.cost = Some(0)]

\* `img.score?.countAccuracy || 0` and `img.score?.classAccuracy || 0`
CountAccuracyOrZero(img) == IF IsDefined(img.score) THEN img.score[1].countAccuracy ELSE Zero
ClassAccuracyOrZero(img) == IF IsDefined(img.score) THEN img.score[1].classAccuracy ELSE Zero

\* runEvaluation, "Generate final results": the EvaluationResult built from the
\* loop's local array and running totals; the averages divide by the number of
\* completed images, whatever it is
FinalResults(lp) ==
    LET completedResults == SelectSeq(lp.results, LAMBDA img : img.status = "completed")
        n == Len(completedResults)
    IN [images |-> lp.results,
        averageCountAccuracy |->
            FracDivInt(FracSum([k \in 1 .. n |-> CountAccuracyOrZero(completedResults[k])]), n),
        averageClassAccuracy |->
            FracDivInt(FracSum([k \in 1 .. n |-> ClassAccuracyOrZero(completedResults[k])]), n),
        totalCost |-> lp.totalCost,
        duration |-> lp.totalDuration]

\* `{...prev[modelId]}` where prev has no entry for modelId (the model was
\* removed): the spread of undefined has no field at all.  A field that is
\* undefined is modelled by the value that reads like it: no results, isRunning
\* falsy, no images.
NoEntry ==
    [images |-> <<>>,
     results |-> Undefined,
     isRunning |-> FALSE,
     currentImageIndex |-> 0,
     progress |-> Zero]
EntryOf(prev, modelId) == IF modelId \in DOMAIN prev THEN prev[modelId] ELSE NoEntry

\* an end of the run that writes results and progress but leaves isRunning
FinishRunStillRunning(prev, lp) ==
    [me |-> SetEvaluation(prev, lp.modelId,
                [EntryOf(prev, lp.modelId) EXCEPT !.results = Some(FinalResults(lp)),
                                         !.progress = Hundred]),
     lp |-> IdleLoop]

\* runEvaluation after the loop: results, isRunning and progress are written;
\* images and currentImageIndex are left as they are
FinishRun(prev, lp) ==
    [me |-> SetEvaluation(prev, lp.modelId,
                [EntryOf(prev, lp.modelId) EXCEPT !.results = Some(FinalResults(lp)),
                                         !.isRunning = FALSE,
                                         !.progress = Hundred]),
     lp |-> IdleLoop]

\* runEvaluation, top of iteration i: leave the loop when i is past the last
\* image or the stop flag is set, else mark image i processing, publish the
\* local array as `images` and await the fetch of the image
LoopTop(prev, flags, lp, i) ==
    IF i < Len(lp.results) /\ ~flags[lp.modelId]
    THEN LET results == [lp.results EXCEPT ![i + 1].status = "processing"]
         IN [me |-> SetEvaluation(prev, lp.modelId,
                        [EntryOf(prev, lp.modelId) EXCEPT !.images = results,
                                                 !.currentImageIndex = i,
                                                 !.progress = Percent(i, Len(lp.results))]),
             lp |-> [lp EXCEPT !.pc = "fetch", !.i = i, !.results = results,
                               !.retryCount = 0, !.response_data = Undefined,
                               !.calls = 0, !.waited = 0]]
    ELSE FinishRun(prev, lp)

\* an end of iteration that waits after every image, the last one included
DelayAfterEveryImage(prev, flags, lp) ==
    IF lp.apiDelaySeconds > 0
    THEN [me |-> prev, lp |-> [lp EXCEPT !.pc = "delay"]]
    ELSE LoopTop(prev, flags, lp, lp.i + 1)

\* runEvaluation, end of iteration i: wait apiDelaySeconds when more images
\* remain and the delay is positive, else go on to the top of iteration i + 1
EndOfIteration(prev, flags, lp) ==
    IF lp.i < Len(lp.results) - 1 /\ lp.apiDelaySeconds > 0
    THEN [me |-> prev, lp |-> [lp EXCEPT !.pc = "delay"]]
    ELSE LoopTop(prev, flags, lp, lp.i + 1)

\* the update both the success and the catch branch of the loop publish:
\* images and (when a results object exists) results.images become a copy of the
\* local array, currentImageIndex and progress move to i + 1
PublishResults(prev, lp) ==
    LET cur == prev[lp.modelId]
    IN SetEvaluation(prev, lp.modelId,
          [cur EXCEPT !.images = lp.results,
                      !.results = IF IsDefined(cur.results)
                                  THEN Some([cur.results[1] EXCEPT !.images = lp.results])
                                  ELSE Undefined,
                      !.currentImageIndex = lp.i + 1,
                      !.progress = Percent(lp.i + 1, Len(lp.results))])

\* the end of image i: the update is published, then the end of the iteration.
\* Without an entry for the model the updater reads `currentEvaluation.results`
\* of undefined and throws while React renders: with no error boundary the tree
\* is unmounted, and nothing this loop does later is written.
EndOfImage(prev, flags, lp) ==
    IF lp.modelId \in DOMAIN prev
    THEN EndOfIteration(PublishResults(prev, lp), flags, lp)
    ELSE [me |-> prev, lp |-> IdleLoop]

\* the EvaluationImage written for an image whose provider call returned
\* (`updatedImg`, in runEvaluation and in rerunImageEvaluation): parse, cost,
\* score; llmResponse is the content or, when it is empty, `Error: <message>`
UpdatedImg(img, response_data, apiDuration, dims) ==
    LET parsed == parseLLMResponse(response_data.content)
        usage == response_data.usage
        cost == calculateAPICost(dims[1], dims[2],
                    IF IsDefined(usage) THEN usage[1].prompt_tokens ELSE 0,
                    IF IsDefined(usage) THEN usage[1].completion_tokens ELSE 0)
    IN [img EXCEPT !.predictedObjects = Some(parsed.count),
                   !.predictedClasses = Some(parsed.classes),
                   !.llmResponse = Some(IF HasContent(response_data) THEN response_data.content
                                        ELSE IF IsDefined(response_data.error) THEN ErrorText
                                        ELSE EmptyText),
                   !.apiDuration = Some(apiDuration),
                   !.cost = Some(cost),
                   !.score = Some(calculateImageScore(img.actualObjects, img.actualClasses,
                                                      parsed.count, parsed.classes)),
                   !.status = "completed"]

\* the retry loop around analyzeImageWithLLM, after a reply: leave the loop on
\* content or when the budget is used up (pc "dims": getImageDimensions is
\* awaited next); else wait 1000 * (retryCount + 1) ms, retryCount++ and make the
\* next attempt.  The backoff timer reads and writes nothing, so its await is
\* not a step of its own: `waited` records the wait before the attempt in flight.
\* AfterReply without the attempt budget: an empty reply is always retried
AfterReplyNoBudget(p, reply) ==
    IF HasContent(reply)
    THEN [p EXCEPT !.pc = "dims", !.response_data = Some(reply)]
    ELSE [p EXCEPT !.pc = "call", !.response_data = Some(reply),
                   !.waited = BackoffMs * (p.retryCount + 1),
                   !.retryCount = p.retryCount + 1,
                   !.calls = p.calls + 1]

AfterReply(p, reply) ==
    IF HasContent(reply) \/ ~(p.retryCount < maxRetries - 1)
    THEN [p EXCEPT !.pc = "dims", !.response_data = Some(reply)]
    ELSE [p EXCEPT !.pc = "call", !.response_data = Some(reply),
                   !.waited = BackoffMs * (p.retryCount + 1),
                   !.retryCount = p.retryCount + 1,
                   !.calls = p.calls + 1]

\* `img.cost || 0` and `img.apiDuration || 0`
CostOf(img) == OrElse(img.cost, 0)
DurationOf(img) == OrElse(img.apiDuration, 0)

\* ---------------------------------------------------------------- the UI
\* ModelEvaluationContent: the Run Test button is disabled while isRunning
RunButtonEnabled(m) ==
    /\ m \in DOMAIN modelEvaluations
    /\ ~modelEvaluations[m].isRunning

\* ModelEvaluationContent: the Rerun button is shown for a completed or errored
\* row of results.images without a response or with a predicted count of 0, and
\* is disabled while that image is the one being rerun
RerunButtonEnabled(m, k) ==
    /\ m \in DOMAIN modelEvaluations
    /\ IsDefined(modelEvaluations[m].results)
    /\ k < Len(modelEvaluations[m].results[1].images)
    /\ LET img == modelEvaluations[m].results[1].images[k + 1]
       IN /\ img.status \in {"completed", "error"}
          /\ IF IsDefined(img.llmResponse) /\ img.llmResponse[1].kind # "empty"
             THEN img.predictedObjects = Some(Zero)
             ELSE TRUE
          /\ rerunningImage # Some(img.id)

InFlight(p) == p.pc # "idle"
FreeLoop == CHOOSE l \in LoopIds : ~InFlight(loops[l]) /\ \A x \in LoopIds : x < l => InFlight(loops[x])
FreeRerun == CHOOSE r \in RerunIds : ~InFlight(reruns[r]) /\ \A x \in RerunIds : x < r => InFlight(reruns[x])

\* ------------------------------------------------------------ runEvaluation
\* runEvaluation(modelId, config) up to its first await: clear the stop flag,
\* set isRunning, copy the images and enter iteration 0
runEvaluation(m, cfg) ==
    /\ userCalls < MaxCalls
    /\ userCalls' = userCalls + 1
    /\ RunButtonEnabled(m)
    /\ LET flags == [stopFlags EXCEPT ![m] = FALSE]
           started == SetEvaluation(modelEvaluations, m,
                          [modelEvaluations[m] EXCEPT !.isRunning = TRUE,
                                                      !.progress = Zero,
                                                      !.currentImageIndex = 0])
           lp == [pc |-> "start", modelId |-> m, i |-> 0,
                  results |-> modelEvaluations[m].images,
                  totalCost |-> 0, totalDuration |-> 0,
                  retryCount |-> 0, response_data |-> Undefined,
                  apiDelaySeconds |-> cfg.apiDelaySeconds, calls |-> 0, waited |-> 0]
           next == LoopTop(started, flags, lp, 0)
       IN /\ stopFlags' = flags
          /\ modelEvaluations' = next.me
          /\ loops' = [loops EXCEPT ![FreeLoop] = next.lp]
    /\ UNCHANGED <<apiKey, reruns, rerunningImage, config, call>>

\* the image bytes arrive and are encoded: the first provider attempt starts
LoopFetched(l) ==
    /\ loops[l].pc = "fetch"
    /\ loops' = [loops EXCEPT ![l] = [@ EXCEPT !.pc = "call", !.calls = 1]]
    /\ UNCHANGED <<modelEvaluations, stopFlags, apiKey, reruns, rerunningImage, userCalls, config, call>>

\* fetch, blob or the encoding throws: the catch branch marks the image error
LoopFetchFailed(l) ==
    /\ loops[l].pc = "fetch"
    /\ LET lp == loops[l]
           failed == [lp EXCEPT !.results[lp.i + 1].status = "error"]
           next == EndOfImage(modelEvaluations, stopFlags, failed)
       IN /\ modelEvaluations' = next.me
          /\ loops' = [loops EXCEPT ![l] = next.lp]
    /\ UNCHANGED <<stopFlags, apiKey, reruns, rerunningImage, userCalls, config, call>>

\* analyzeImageWithLLM returns.  Either the retry loop goes on to the next
\* attempt, or the image is parsed, priced (getImageDimensions never rejects and
\* writes nothing: its await is part of this step), scored, stored in the local
\* array and published; then the end of the iteration.
LoopReplied(l) ==
    /\ loops[l].pc = "call"
    /\ \E reply \in analyzeImageWithLLM(apiKey), dims \in Dimensions :
          LET lp == AfterReply(loops[l], reply)
              apiDuration == reply.duration
              updatedImg == UpdatedImg(lp.results[lp.i + 1], reply, apiDuration, dims)
              done == [lp EXCEPT !.results[lp.i + 1] = updatedImg,
                                 !.totalCost = lp.totalCost + updatedImg.cost[1],
                                 !.totalDuration = lp.totalDuration + apiDuration]
              next == EndOfImage(modelEvaluations, stopFlags, done)
          IN IF lp.pc = "call"
             THEN /\ loops' = [loops EXCEPT ![l] = lp]
                  /\ UNCHANGED modelEvaluations
             ELSE /\ modelEvaluations' = next.me
                  /\ loops' = [loops EXCEPT ![l] = next.lp]
    /\ UNCHANGED <<stopFlags, apiKey, reruns, rerunningImage, userCalls, config, call>>

\* the inter-call delay timer fires: top of the next iteration
LoopDelayed(l) ==
    /\ loops[l].pc = "delay"
    /\ LET next == LoopTop(modelEvaluations, stopFlags, loops[l], loops[l].i + 1)
       IN /\ modelEvaluations' = next.me
          /\ loops' = [loops EXCEPT ![l] = next.lp]
    /\ UNCHANGED <<stopFlags, apiKey, reruns, rerunningImage, userCalls, config, call>>

\* ------------------------------------------------- stopEvaluation, resetEvaluation
stopEvaluation(m) ==
    /\ userCalls < MaxCalls
    /\ userCalls' = userCalls + 1
    /\ m \in DOMAIN modelEvaluations
    /\ stopFlags' = [stopFlags EXCEPT ![m] = TRUE]
    /\ modelEvaluations' = SetEvaluation(modelEvaluations, m,
          [modelEvaluations[m] EXCEPT
              !.isRunning = FALSE,
              !.results = Undefined,
              !.images = [k \in 1 .. Len(@) |-> WipeImage(@[k])]])
    /\ UNCHANGED <<apiKey, loops, reruns, rerunningImage, config, call>>

resetEvaluation(m) ==
    /\ userCalls < MaxCalls
    /\ userCalls' = userCalls + 1
    /\ m \in DOMAIN modelEvaluations
    /\ modelEvaluations' = SetEvaluation(modelEvaluations, m,
          [modelEvaluations[m] EXCEPT
              !.isRunning = FALSE,
              !.currentImageIndex = 0,
              !.progress = Zero,
              !.results = Undefined,
              !.images = [k \in 1 .. Len(@) |-> WipeImage(@[k])]])
    /\ UNCHANGED <<stopFlags, apiKey, loops, reruns, rerunningImage, config, call>>

\* ----------------------------------------------------- rerunImageEvaluation
\* totals and averages recomputed by a successful rerun: sums over all images,
\* means over the completed images that carry a score, 0 when there is none
Recalculated(results, updatedImages) ==
    LET scored == SelectSeq(updatedImages,
                      LAMBDA img : img.status = "completed" /\ IsDefined(img.score))
        n == Len(scored)
    IN [results EXCEPT
          !.images = updatedImages,
          !.totalCost = SumSeq([k \in 1 .. Len(updatedImages) |-> CostOf(updatedImages[k])]),
          !.duration = SumSeq([k \in 1 .. Len(updatedImages) |-> DurationOf(updatedImages[k])]),
          !.averageCountAccuracy =
              IF n > 0
              THEN FracDivInt(FracSum([k \in 1 .. n |-> scored[k].score[1].countAccuracy]), n)
              ELSE Zero,
          !.averageClassAccuracy =
              IF n > 0
              THEN FracDivInt(FracSum([k \in 1 .. n |-> scored[k].score[1].classAccuracy]), n)
              ELSE Zero]

\* handleRerunImage and rerunImageEvaluation(modelId, imageIndex) up to the first
\* await: results.images[imageIndex] is marked processing (images is not written)
rerunImageEvaluation(m, k) ==
    /\ userCalls < MaxCalls
    /\ userCalls' = userCalls + 1
    /\ RerunButtonEnabled(m, k)
    /\ LET cur == modelEvaluations[m]
           img == cur.results[1].images[k + 1]
       IN /\ modelEvaluations' = SetEvaluation(modelEvaluations, m,
                [cur EXCEPT !.results = Some([cur.results[1] EXCEPT
                                                 !.images[k + 1].status = "processing"])])
          /\ reruns' = [reruns EXCEPT ![FreeRerun] =
                [pc |-> "fetch", modelId |-> m, imageIndex |-> k, img |-> img,
                 retryCount |-> 0, response_data |-> Undefined, calls |-> 0, waited |-> 0]]
          /\ rerunningImage' = Some(img.id)
    /\ UNCHANGED <<stopFlags, apiKey, loops, config, call>>

RerunFetched(r) ==
    /\ reruns[r].pc = "fetch"
    /\ reruns' = [reruns EXCEPT ![r] = [@ EXCEPT !.pc = "call", !.calls = 1]]
    /\ UNCHANGED <<modelEvaluations, stopFlags, apiKey, loops, rerunningImage, userCalls, config, call>>

\* the catch branch: the image as it is now in results.images is marked failed
\* with an error text; images is replaced by results.images; the totals and
\* averages are left as they are.  Nothing is written without a results object.
RerunFetchFailed(r) ==
    /\ reruns[r].pc = "fetch"
    /\ LET rr == reruns[r]
           m == rr.modelId
           cur == modelEvaluations[m]
       IN modelEvaluations' =
            IF m \notin DOMAIN modelEvaluations \/ ~IsDefined(modelEvaluations[m].results)
            THEN modelEvaluations
            ELSE LET updatedImages ==
                         [cur.results[1].images EXCEPT
                             ![rr.imageIndex + 1] = [@ EXCEPT !.status = "failed",
                                                              !.llmResponse = Some(ErrorText)]]
                 IN SetEvaluation(modelEvaluations, m,
                        [cur EXCEPT !.images = updatedImages,
                                    !.results = Some([cur.results[1] EXCEPT
                                                         !.images = updatedImages])])
    /\ reruns' = [reruns EXCEPT ![r] = IdleRerun]
    /\ rerunningImage' = Undefined
    /\ UNCHANGED <<stopFlags, apiKey, loops, userCalls, config, call>>

\* analyzeImageWithLLM returns.  Either the retry loop goes on to the next
\* attempt, or the image taken when the rerun was called is parsed, priced and
\* scored, stored at imageIndex of the current results.images, which also
\* replaces images, and the totals and averages are recomputed.
RerunReplied(r) ==
    /\ reruns[r].pc = "call"
    /\ \E reply \in analyzeImageWithLLM(apiKey), dims \in Dimensions :
          LET rr == AfterReply(reruns[r], reply)
              m == rr.modelId
              cur == modelEvaluations[m]
              updatedImg == UpdatedImg(rr.img, reply, reply.duration, dims)
          IN IF rr.pc = "call"
             THEN /\ reruns' = [reruns EXCEPT ![r] = rr]
                  /\ UNCHANGED <<modelEvaluations, rerunningImage>>
             ELSE /\ modelEvaluations' =
                       IF m \notin DOMAIN modelEvaluations
                             \/ ~IsDefined(modelEvaluations[m].results)
                       THEN modelEvaluations
                       ELSE LET updatedImages ==
                                    [cur.results[1].images EXCEPT
                                        ![rr.imageIndex + 1] = updatedImg]
                            IN SetEvaluation(modelEvaluations, m,
                                   [cur EXCEPT !.images = updatedImages,
                                               !.results = Some(Recalculated(cur.results[1],
                                                                             updatedImages))])
                  /\ reruns' = [reruns EXCEPT ![r] = IdleRerun]
                  /\ rerunningImage' = Undefined
    /\ UNCHANGED <<stopFlags, apiKey, loops, userCalls, config, call>>

\* ------------------------------------------------------------ specification
Next ==
    \/ \E m \in ModelIds : runEvaluation(m, config)
    \/ \E l \in LoopIds : LoopFetched(l)
    \/ \E l \in LoopIds : LoopFetchFailed(l)
    \/ \E l \in LoopIds : LoopReplied(l)
    \/ \E l \in LoopIds : LoopDelayed(l)
    \/ \E m \in ModelIds : stopEvaluation(m)
    \/ \E m \in ModelIds : resetEvaluation(m)
    \/ \E m \in ModelIds, k \in ImageIdx : rerunImageEvaluation(m, k)
    \/ \E r \in RerunIds : RerunFetched(r)
    \/ \E r \in RerunIds : RerunFetchFailed(r)
    \/ \E r \in RerunIds : RerunReplied(r)

Spec == Init /\ [][Next]_vars

\* ---------------------------------------------- a sample evaluated before
\* The state runEvaluation leaves when it has run to its end on the generated
\* sample: image i failed to load ("error"), got no content from the provider on
\* any attempt ("noContent") or got content ("content").
RunOutcomes(hasKey) == IF hasKey THEN {"error", "noContent", "content"}
                       ELSE {"error", "noContent"}

EvaluatedImage(i, outcome, d, dims) ==
    IF outcome = "error" THEN [SampleImage(i) EXCEPT !.status = "error"]
    ELSE IF outcome = "noContent" THEN UpdatedImg(SampleImage(i), ErrorReply(d), d, dims)
    ELSE UpdatedImg(SampleImage(i), ContentReply(CHOOSE c \in Contents : TRUE, d), d, dims)

EvaluatedBefore(m, outcomes) ==
    LET d == CHOOSE x \in Durations : TRUE
        dims == CHOOSE x \in Dimensions : TRUE
        results == [k \in 1 .. NumImages |-> EvaluatedImage(k - 1, outcomes[k], d, dims)]
        completed == SelectSeq(results, LAMBDA img : img.status = "completed")
        lp == [modelId |-> m, results |-> results,
               totalCost |-> SumSeq([k \in 1 .. Len(completed) |-> completed[k].cost[1]]),
               totalDuration |-> SumSeq([k \in 1 .. Len(completed) |-> completed[k].apiDuration[1]])]
    IN [images |-> results,
        results |-> Some(FinalResults(lp)),
        isRunning |-> FALSE,
        currentImageIndex |-> NumImages,
        progress |-> Hundred]

InitEvaluated ==
    /\ apiKey \in BOOLEAN
    /\ \E outcomes \in [1 .. NumImages -> RunOutcomes(apiKey)] :
          modelEvaluations = [m \in ModelIds |-> EvaluatedBefore(m, outcomes)]
    /\ stopFlags = [m \in ModelIds |-> FALSE]
    /\ loops = [l \in LoopIds |-> IdleLoop]
    /\ reruns = [r \in RerunIds |-> IdleRerun]
    /\ rerunningImage = Undefined
    /\ userCalls = 0
    /\ config \in [apiDelaySeconds : DelaySeconds]
    /\ call = NoCall

\* the calls the user makes on a sample that was evaluated before
SpecEvaluated == InitEvaluated /\ [][Next]_vars

\* the states of InitEvaluated are states of Spec: a run that ended
EvaluatedIsReachable ==
    ~(/\ userCalls = 1
      /\ \A l \in LoopIds : ~InFlight(loops[l])
      /\ \E outcomes \in [1 .. NumImages -> RunOutcomes(apiKey)] :
            modelEvaluations = [m \in ModelIds |-> EvaluatedBefore(m, outcomes)])

\* =========================================================== pure functions
\* The functions of evalService are examined on their own: the hook rests in
\* the state generateSample leaves, `call` holds the arguments of one call and,
\* once the function was applied, its result.
HookAtRest ==
    /\ modelEvaluations = generateSample
    /\ stopFlags = [m \in ModelIds |-> FALSE]
    /\ apiKey = TRUE
    /\ loops = [l \in LoopIds |-> IdleLoop]
    /\ reruns = [r \in RerunIds |-> IdleRerun]
    /\ rerunningImage = Undefined
    /\ userCalls = 0
    /\ config = [apiDelaySeconds |-> 0]

\* ------------------------------------------- parseLLMResponse and the score
\* largest number of entries of the list of a JSON response
MaxItems == 2
\* largest number of tokens of a response that is not JSON
MaxTokens == 2

\* the numbers a JSON response may hold: negative, zero, not an integer, the
\* largest class id and the first number after it
Numbers == {Frac(-1, 1), Zero, Frac(5, 2), FromInt(MaxClassId), FromInt(MaxClassId + 1)}
JValues ==
    {JNumber(q) : q \in Numbers} \cup {JString(q) : q \in Numbers \cup {NaN}}
        \cup {JNull, JAbsent}
SeqsUpTo(S, n) == UNION {[1 .. k -> S] : k \in 0 .. n}
DigitRuns == {Digits(n) : n \in {0, 3, MaxClassId + 1, 100}}

\* the response texts examined
Responses ==
    {ObjectText(count, key, items) :
        count \in JValues, key \in {"objects", "aircraft", "classes"},
        items \in SeqsUpTo(JValues, MaxItems)}
    \cup {ObjectText(count, "none", <<>>) : count \in JValues}
    \cup {ValueText(type) : type \in {"null", "number", "string", "array"}}
    \cup {ProseText(tokens) : tokens \in SeqsUpTo({Keyword, Word} \cup DigitRuns, MaxTokens)}
    \cup {EmptyText, ErrorText}

InitParse ==
    /\ HookAtRest
    /\ \E response \in Responses, i \in ImageIdx :
          call = [pc |-> "response", response |-> response, img |-> SampleImage(i)]

\* parseLLMResponse(response) returns
Parsed ==
    /\ call.pc = "response"
    /\ call' = [pc |-> "parsed", response |-> call.response, img |-> call.img,
                parsedResponse |-> parseLLMResponse(call.response)]
    /\ UNCHANGED hookState

\* the prediction is scored against the image, as updatedImg does
Scored ==
    /\ call.pc = "parsed"
    /\ call' = [pc |-> "scored", response |-> call.response, img |-> call.img,
                parsedResponse |-> call.parsedResponse,
                score |-> calculateImageScore(call.img.actualObjects, call.img.actualClasses,
                                              call.parsedResponse.count,
                                              call.parsedResponse.classes)]
    /\ UNCHANGED hookState

NextParse == Parsed \/ Scored
SpecParse == InitParse /\ [][NextParse]_vars

\* C14: every class id parseLLMResponse returns is an integer in 0..6.
ClassIdsAreIntegersInRange ==
    call.pc \in {"parsed", "scored"}
    => \A k \in 1 .. Len(call.parsedResponse.classes) :
          LET id == call.parsedResponse.classes[k]
          IN IsInteger(id) /\ FracLeq(Zero, id) /\ FracLeq(id, FromInt(MaxClassId))

\* the response has no count the parser can extract: no JSON object with a
\* count, and no keyword followed by digits
NoCountExtractable(response) ==
    /\ response.kind = "json" => (response.type # "null" /\ response.count.t = "undefined")
    /\ \A k \in 1 .. (Len(response.tokens) - 1) :
          ~(response.tokens[k].tok = "keyword" /\ response.tokens[k + 1].tok = "digits")

\* C15: parseLLMResponse returns a well-formed prediction for every response:
\* the count is an integer, 0 when the response has none, and the classes are a
\* list, empty when the response has none.
PredictionIsWellFormed ==
    call.pc \in {"parsed", "scored"}
    => /\ IsInteger(call.parsedResponse.count)
       /\ NoCountExtractable(call.response) => call.parsedResponse.count = Zero
       /\ (call.response.items = <<>> /\ call.response.tokens = <<>>)
          => call.parsedResponse.classes = <<>>

\* q is a number between 0 and 1
InUnitInterval(q) == ~IsNaN(q) /\ FracLeq(Zero, q) /\ FracLeq(q, One)

\* C18: the score computed for a prediction parseLLMResponse returns has its
\* countAccuracy and its classAccuracy within [0, 1].
ScoreOfPredictionInUnitInterval ==
    call.pc = "scored"
    => InUnitInterval(call.score.countAccuracy) /\ InUnitInterval(call.score.classAccuracy)

\* ------------------------------------------------------ calculateImageScore
\* largest object count examined
MaxCount == 3
\* largest number of class ids of a list examined
MaxLen == 3
\* the class ids the lists examined are made of
ClassIds == {0, MaxClassId}
ClassLists == {FromInts(s) : s \in SeqsUpTo(ClassIds, MaxLen)}

InitScore ==
    /\ HookAtRest
    /\ \E a \in 0 .. MaxCount, p \in 0 .. MaxCount, actual \in ClassLists, predicted \in ClassLists :
          call = [pc |-> "arguments",
                  actualCount |-> FromInt(a), actualClasses |-> actual,
                  predictedCount |-> FromInt(p), predictedClasses |-> predicted]

\* calculateImageScore(actualCount, actualClasses, predictedCount, predictedClasses) returns
ImageScored ==
    /\ call.pc = "arguments"
    /\ call' = [pc |-> "returned",
                actualCount |-> call.actualCount, actualClasses |-> call.actualClasses,
                predictedCount |-> call.predictedCount,
                predictedClasses |-> call.predictedClasses,
                score |-> calculateImageScore(call.actualCount, call.actualClasses,
                                              call.predictedCount, call.predictedClasses)]
    /\ UNCHANGED hookState

NextScore == ImageScored
SpecScore == InitScore /\ [][NextScore]_vars

\* C16: the countAccuracy calculateImageScore returns for the non-negative
\* integers a (actual) and p (predicted) is 1 when both are 0, 0 when exactly
\* one is 0 and min(a, p) / max(a, p) otherwise; it is the countAccuracy of the
\* swapped counts, and it is 1 when a = p.
CountAccuracyIsMinOverMax ==
    call.pc = "returned"
    => LET a == call.actualCount[1]
           p == call.predictedCount[1]
           countAccuracy == call.score.countAccuracy
           swapped == calculateImageScore(call.predictedCount, call.actualClasses,
                                          call.actualCount, call.predictedClasses)
       IN /\ (a = 0 /\ p = 0) => countAccuracy = One
          /\ ((a = 0) # (p = 0)) => countAccuracy = Zero
          /\ (a # 0 /\ p # 0) => countAccuracy = Frac(Min(a, p), Max(a, p))
          /\ countAccuracy = swapped.countAccuracy
          /\ a = p => countAccuracy = One

\* actual 3, predicted 2 gives 2/3
ThreeAgainstTwo ==
    /\ call.pc = "returned"
    /\ call.actualCount = FromInt(3)
    /\ call.predictedCount = FromInt(2)
    /\ call.score.countAccuracy = Frac(2, 3)

\* the multiset of the entries of s: entry -> number of occurrences
Multiset(s) == [c \in Range(s) |-> CountOf(s, c)]
\* the number of entries of a multiset
RECURSIVE Size(_)
Size(b) ==
    IF DOMAIN b = {} THEN 0
    ELSE LET c == CHOOSE x \in DOMAIN b : TRUE
         IN b[c] + Size([x \in (DOMAIN b) \ {c} |-> b[x]])
\* the entries two multisets share
RECURSIVE Shared(_, _, _)
Shared(ids, A, P) ==
    IF ids = {} THEN 0
    ELSE LET c == CHOOSE x \in ids : TRUE
         IN Min(A[c], P[c]) + Shared(ids \ {c}, A, P)

\* the reference formula of the class accuracy, on the multisets A (actual) and
\* P (predicted)
ReferenceClassAccuracy(A, P) ==
    LET correct == Shared((DOMAIN A) \cap (DOMAIN P), A, P)
        minTotal == Min(Size(A), Size(P))
        maxTotal == Max(Size(A), Size(P))
    IN IF Size(A) = 0 /\ Size(P) = 0 THEN One
       ELSE IF Size(A) = 0 \/ Size(P) = 0 THEN Zero
       ELSE IF A = P THEN One
       ELSE IF Size(A) = Size(P) THEN Frac(correct, maxTotal)
       ELSE FracMul(Frac(correct, maxTotal), Frac(minTotal, maxTotal))

DigitChars == <<"0", "1", "2", "3", "4", "5", "6", "7", "8", "9">>
IsDigit(c) == \E k \in 1 .. Len(DigitChars) : DigitChars[k] = c
DigitValue(c) == (CHOOSE k \in 1 .. Len(DigitChars) : DigitChars[k] = c) - 1
IsSpace(c) == c \in {" ", "\n", "\t"}

RECURSIVE Power(_, _)
Power(b, e) == IF e = 0 THEN 1 ELSE b * Power(b, e - 1)

\* the decimal digits of the natural number n
RECURSIVE DigitsOf(_)
DigitsOf(n) ==
    IF n < 10 THEN <<DigitChars[n + 1]>>
    ELSE DigitsOf(n \div 10) \o <<DigitChars[(n % 10) + 1]>>

\* the decimal digits of n, padded with zeros on the left to width w
RECURSIVE PadLeft(_, _)
PadLeft(str, w) == IF Len(str) >= w THEN str ELSE PadLeft(<<"0">> \o str, w)

\* String(q) for a number with at most one decimal digit (every number of the
\* strings examined is one)
NumberToString(q) ==
    IF IsNaN(q) THEN <<"N", "a", "N">>
    ELSE LET tenths == ((IF q[1] < 0 THEN -q[1] ELSE q[1]) * 10) \div q[2]
             sign == IF q[1] < 0 THEN <<"-">> ELSE <<>>
         IN sign \o DigitsOf(tenths \div 10)
               \o (IF tenths % 10 = 0 THEN <<>> ELSE <<".", DigitChars[(tenths % 10) + 1]>>)

\* q.toFixed(digits): q rounded to that many decimal digits
toFixed(q, digits) ==
    IF IsNaN(q) THEN <<"N", "a", "N">>
    ELSE LET scale == Power(10, digits)
             abs == IF q[1] < 0 THEN -q[1] ELSE q[1]
             rounded == (2 * abs * scale + q[2]) \div (2 * q[2])
             sign == IF q[1] < 0 THEN <<"-">> ELSE <<>>
         IN sign \o DigitsOf(rounded \div scale)
               \o (IF digits = 0 THEN <<>>
                   ELSE <<".">> \o PadLeft(DigitsOf(rounded % scale), digits))

\* strs.join(sep)
RECURSIVE Join(_, _)
Join(strs, sep) ==
    IF Len(strs) = 0 THEN <<>>
    ELSE IF Len(strs) = 1 THEN strs[1]
    ELSE strs[1] \o sep \o Join(Tail(strs), sep)

\* str.split(c) for a one-character separator
RECURSIVE Split(_, _)
Split(str, c) ==
    IF \A k \in 1 .. Len(str) : str[k] # c THEN <<str>>
    ELSE LET at == CHOOSE k \in 1 .. Len(str) :
                      str[k] = c /\ \A j \in 1 .. (k - 1) : str[j] # c
         IN <<SubSeq(str, 1, at - 1)>> \o Split(SubSeq(str, at + 1, Len(str)), c)

\* str.trim()
RECURSIVE TrimStart(_)
TrimStart(str) ==
    IF Len(str) > 0 /\ IsSpace(str[1]) THEN TrimStart(Tail(str)) ELSE str
RECURSIVE TrimEnd(_)
TrimEnd(str) ==
    IF Len(str) > 0 /\ IsSpace(str[Len(str)]) THEN TrimEnd(SubSeq(str, 1, Len(str) - 1))
    ELSE str
Trim(str) == TrimEnd(TrimStart(str))

\* str.replace(/c/g, by): every occurrence of the character c replaced
ReplaceAll(str, c, by) == [k \in 1 .. Len(str) |-> IF str[k] = c THEN by ELSE str[k]]
\* str.replace(/"/g, ''): every occurrence of the character c removed
RemoveAll(str, c) == SelectSeq(str, LAMBDA x : x # c)

\* str.replace(c, ''): the first occurrence of the character c removed
RemoveFirst(str, c) ==
    IF \A k \in 1 .. Len(str) : str[k] # c THEN str
    ELSE LET at == CHOOSE k \in 1 .. Len(str) : str[k] = c /\ \A j \in 1 .. (k - 1) : str[j] # c
         IN SubSeq(str, 1, at - 1) \o SubSeq(str, at + 1, Len(str))

\* the value of the longest prefix of str that consists of digits
RECURSIVE DigitPrefix(_, _)
DigitPrefix(str, acc) ==
    IF Len(str) > 0 /\ IsDigit(str[1]) THEN DigitPrefix(Tail(str), acc * 10 + DigitValue(str[1]))
    ELSE acc

\* parseInt(str): leading white space, a sign, then digits; NaN without a digit
parseInt(str) ==
    LET t == TrimStart(str)
        negative == Len(t) > 0 /\ t[1] = "-"
        u == IF Len(t) > 0 /\ t[1] \in {"-", "+"} THEN Tail(t) ELSE t
    IN IF Len(u) > 0 /\ IsDigit(u[1])
       THEN FromInt(IF negative THEN -DigitPrefix(u, 0) ELSE DigitPrefix(u, 0))
       ELSE NaN

\* the number of leading digits of str
RECURSIVE DigitRun(_)
DigitRun(str) == IF Len(str) > 0 /\ IsDigit(str[1]) THEN 1 + DigitRun(Tail(str)) ELSE 0

\* parseFloat(str) for a string without exponent: sign, digits, and a point
\* followed by digits
parseFloat(str) ==
    LET t == TrimStart(str)
        negative == Len(t) > 0 /\ t[1] = "-"
        u == IF Len(t) > 0 /\ t[1] \in {"-", "+"} THEN Tail(t) ELSE t
        n == DigitRun(u)
        rest == SubSeq(u, n + 1, Len(u))
        m == IF Len(rest) > 0 /\ rest[1] = "." THEN DigitRun(Tail(rest)) ELSE 0
        whole == DigitPrefix(u, 0)
        part == IF m > 0 THEN DigitPrefix(Tail(rest), 0) ELSE 0
        abs == Frac(whole * Power(10, m) + part, Power(10, m))
    IN IF n = 0 /\ m = 0 THEN NaN
       ELSE IF negative THEN Frac(-abs[1], abs[2]) ELSE abs

\* `x || fallback` for a number x
NumberOr(q, fallback) == IF IsNaN(q) \/ q = Zero THEN fallback ELSE q

\* ---------------------------------------- exportToCSV, parseCSVToEvaluationData
\* the column names
Header ==
    [ImageId |->
        <<"I", "m", "a", "g", "e", " ", "I", "D">>,
     Filename |->
        <<"F", "i", "l", "e", "n", "a", "m", "e">>,
     Subset |->
        <<"S", "u", "b", "s", "e", "t">>,
     ActualObjects |->
        <<"A", "c", "t", "u", "a", "l", " ", "O", "b", "j", "e", "c", "t", "s">>,
     ActualClasses |->
        <<"A", "c", "t", "u", "a", "l", " ", "C", "l", "a", "s", "s", "e", "s">>,
     ActualClassNames |->
        <<"A", "c", "t", "u", "a", "l", " ", "C", "l", "a", "s", "s", " ", "N", "a", "m", "e", "s">>,
     PredictedObjects |->
        <<"P", "r", "e", "d", "i", "c", "t", "e", "d", " ", "O", "b", "j", "e", "c", "t", "s">>,
     PredictedClasses |->
        <<"P", "r", "e", "d", "i", "c", "t", "e", "d", " ", "C", "l", "a", "s", "s", "e", "s">>,
     PredictedClassNames |->
        <<"P", "r", "e", "d", "i", "c", "t", "e", "d", " ", "C", "l", "a", "s", "s", " ", "N", "a", "m", "e", "s">>,
     CountAccuracy |->
        <<"C", "o", "u", "n", "t", " ", "A", "c", "c", "u", "r", "a", "c", "y">>,
     ClassAccuracy |->
        <<"C", "l", "a", "s", "s", " ", "A", "c", "c", "u", "r", "a", "c", "y">>,
     CountConfidence |->
        <<"C", "o", "u", "n", "t", " ", "C", "o", "n", "f", "i", "d", "e", "n", "c", "e">>,
     ClassConfidence |->
        <<"C", "l", "a", "s", "s", " ", "C", "o", "n", "f", "i", "d", "e", "n", "c", "e">>,
     Cost |->
        <<"C", "o", "s", "t">>,
     ApiDurationMs |->
        <<"A", "P", "I", " ", "D", "u", "r", "a", "t", "i", "o", "n", " ", "(", "m", "s", ")">>,
     ImageWidth |->
        <<"I", "m", "a", "g", "e", " ", "W", "i", "d", "t", "h">>,
     ImageHeight |->
        <<"I", "m", "a", "g", "e", " ", "H", "e", "i", "g", "h", "t">>,
     Status |->
        <<"S", "t", "a", "t", "u", "s">>,
     LlmResponse |->
        <<"L", "L", "M", " ", "R", "e", "s", "p", "o", "n", "s", "e">>]
headers ==
    <<Header.ImageId, Header.Filename, Header.Subset, Header.ActualObjects,
      Header.ActualClasses, Header.ActualClassNames, Header.PredictedObjects,
      Header.PredictedClasses, Header.PredictedClassNames, Header.CountAccuracy,
      Header.ClassAccuracy, Header.CountConfidence, Header.ClassConfidence,
      Header.Cost, Header.ApiDurationMs, Header.ImageWidth, Header.ImageHeight,
      Header.Status, Header.LlmResponse>>
requiredHeaders ==
    <<Header.ImageId, Header.Filename, Header.Subset, Header.ActualObjects,
      Header.ActualClasses, Header.ActualClassNames, Header.PredictedObjects,
      Header.PredictedClasses, Header.PredictedClassNames, Header.CountAccuracy,
      Header.ClassAccuracy, Header.Cost, Header.ApiDurationMs, Header.ImageWidth,
      Header.ImageHeight, Header.Status, Header.LlmResponse>>

\* the characters of the response texts examined
CsvContents == {JsonText(2, <<0, 1>>), JsonText(0, <<>>),
                ObjectText(JNumber(FromInt(1)), "classes", <<JNumber(Frac(5, 2))>>)}
Characters(response) ==
    CASE response = EmptyText -> <<>>
      [] response = ErrorText -> <<"E", "r", "r", "o", "r", ":", " ", "e", "r", "r", "o", "r">>
      [] response = JsonText(2, <<0, 1>>) -> <<"{", "\"", "c", "o", "u", "n", "t", "\"", ":", " ", "2", ",", " ", "\"", "c", "l", "a", "s", "s", "e", "s", "\"", ":", " ", "[", "0", ",", " ", "1", "]", "}">>
      [] response = JsonText(0, <<>>) -> <<"{", "\"", "c", "o", "u", "n", "t", "\"", ":", " ", "0", ",", "\n", " ", "\"", "c", "l", "a", "s", "s", "e", "s", "\"", ":", " ", "[", "]", "}">>
      [] response = ObjectText(JNumber(FromInt(1)), "classes", <<JNumber(Frac(5, 2))>>) ->
            <<"{", "\"", "c", "o", "u", "n", "t", "\"", ":", " ", "1", ",", " ", "\"", "c", "l", "a", "s", "s", "e", "s", "\"", ":", " ", "[", "2", ".", "5", "]", "}">>

\* the characters of a status
StatusChars(status) ==
    CASE status = "pending" -> <<"p", "e", "n", "d", "i", "n", "g">>
      [] status = "processing" -> <<"p", "r", "o", "c", "e", "s", "s", "i", "n", "g">>
      [] status = "completed" -> <<"c", "o", "m", "p", "l", "e", "t", "e", "d">>
      [] status = "error" -> <<"e", "r", "r", "o", "r">>
      [] status = "failed" -> <<"f", "a", "i", "l", "e", "d">>

\* the name of a class, standing for the entries of the aircraft table
ClassName(id) == <<"c">> \o NumberToString(id)
\* the file name of an image: its id and the extension
Filename(img) == NumberToString(FromInt(img.id)) \o <<".", "j", "p", "g">>

\* (x * 100).toFixed(1) + '%'
PercentCell(q) == toFixed(FracMul(q, Hundred), 1) \o <<"%">>

\* exportToCSV, result.images.map: the cells of the row of an image.  The
\* fields an image of this model does not carry (subset, confidences, image
\* size) are written as the exporter writes them when they are unset.
RowOf(img) ==
    LET predictedClasses == IF IsDefined(img.predictedClasses) THEN img.predictedClasses[1]
                            ELSE <<>>
    IN <<NumberToString(FromInt(img.id)),
         Filename(img),
         <<"t", "e", "s", "t">>,
         NumberToString(img.actualObjects),
         Join([k \in 1 .. Len(img.actualClasses) |-> NumberToString(img.actualClasses[k])], <<";">>),
         Join([k \in 1 .. Len(img.actualClasses) |-> ClassName(img.actualClasses[k])], <<";">>),
         IF IsDefined(img.predictedObjects) /\ NumberOr(img.predictedObjects[1], Zero) # Zero
         THEN NumberToString(img.predictedObjects[1]) ELSE <<>>,
         Join([k \in 1 .. Len(predictedClasses) |-> NumberToString(predictedClasses[k])], <<";">>),
         Join([k \in 1 .. Len(predictedClasses) |-> ClassName(predictedClasses[k])], <<";">>),
         IF IsDefined(img.score) THEN PercentCell(img.score[1].countAccuracy) ELSE <<>>,
         IF IsDefined(img.score) THEN PercentCell(img.score[1].classAccuracy) ELSE <<>>,
         <<>>,
         <<>>,
         IF OrElse(img.cost, 0) # 0
         THEN <<"$">> \o toFixed(Frac(img.cost[1], 1000000), 4) ELSE <<>>,
         IF OrElse(img.apiDuration, 0) # 0
         THEN NumberToString(FromInt(img.apiDuration[1])) ELSE <<>>,
         <<>>,
         <<>>,
         StatusChars(img.status),
         ReplaceAll(ReplaceAll(IF IsDefined(img.llmResponse) THEN Characters(img.llmResponse[1])
                               ELSE <<>>, "\n", " "), ",", ";")>>

\* rows.map(row => row.map(field => `"${field}"`).join(',')).join('\n')
CsvContent(rows) ==
    Join([r \in 1 .. Len(rows) |->
             Join([f \in 1 .. Len(rows[r]) |-> <<"\"">> \o rows[r][f] \o <<"\"">>], <<",">>)],
         <<"\n">>)

\* exportToCSV(result), on the images of the result
exportToCSV(images) ==
    CsvContent(<<headers>> \o [k \in 1 .. Len(images) |-> RowOf(images[k])])

\* parseCSVRow(row), from character i on, with the field read so far, the quote
\* state and the fields completed.  The characters up to the next quote or
\* separating comma are appended to the field in one step.
RECURSIVE ParseCSVRowFrom(_, _, _, _, _)
ParseCSVRowFrom(row, i, current, inQuotes, fields) ==
    LET stops == {k \in i .. Len(row) : row[k] = "\"" \/ (row[k] = "," /\ ~inQuotes)}
        at == CHOOSE k \in stops : \A j \in stops : k <= j
        upTo == current \o SubSeq(row, i, at - 1)
    IN IF stops = {} THEN Append(fields, Trim(current \o SubSeq(row, i, Len(row))))
       ELSE IF row[at] = "\""
       THEN IF inQuotes /\ at < Len(row) /\ row[at + 1] = "\""
            THEN ParseCSVRowFrom(row, at + 2, Append(upTo, "\""), inQuotes, fields)
            ELSE ParseCSVRowFrom(row, at + 1, upTo, ~inQuotes, fields)
       ELSE ParseCSVRowFrom(row, at + 1, <<>>, inQuotes, Append(fields, Trim(upTo)))

parseCSVRow(row) == ParseCSVRowFrom(row, 1, <<>>, FALSE, <<>>)

\* headers.indexOf(headerName), from 1; 0 when it is not a header
IndexOf(names, name) ==
    IF \E k \in 1 .. Len(names) : names[k] = name
    THEN CHOOSE k \in 1 .. Len(names) : names[k] = name /\ \A j \in 1 .. (k - 1) : names[j] # name
    ELSE 0

\* getField(headerName)
GetField(names, fields, name) ==
    IF IndexOf(names, name) > 0 THEN fields[IndexOf(names, name)] ELSE <<>>

\* str.split(';').map(c => parseInt(c.trim())).filter(c => !isNaN(c)), [] for ''
ParseClasses(str) ==
    IF str = <<>> THEN <<>>
    ELSE LET parts == Split(str, ";")
         IN SelectSeq([k \in 1 .. Len(parts) |-> parseInt(Trim(parts[k]))],
                      LAMBDA c : ~IsNaN(c))

\* imageId.replace(/\.jpg$/i, '')
StripJpg(str) ==
    IF /\ Len(str) >= 4
       /\ str[Len(str) - 3] = "."
       /\ str[Len(str) - 2] \in {"j", "J"}
       /\ str[Len(str) - 1] \in {"p", "P"}
       /\ str[Len(str)] \in {"g", "G"}
    THEN SubSeq(str, 1, Len(str) - 4) ELSE str

\* a score read from the Count Accuracy and Class Accuracy cells
StoredScore(names, fields) ==
    [countAccuracy |-> FracDiv(parseFloat(GetField(names, fields, Header.CountAccuracy)), Hundred),
     classAccuracy |-> FracDiv(parseFloat(GetField(names, fields, Header.ClassAccuracy)), Hundred)]

\* parseCSVToEvaluationData: `scores`, recalculated from the count and class
\* cells of the row
RecalculatedScore(names, fields) ==
    calculateImageScore(NumberOr(parseInt(GetField(names, fields, Header.ActualObjects)), Zero),
                        ParseClasses(GetField(names, fields, Header.ActualClasses)),
                        NumberOr(parseInt(GetField(names, fields, Header.PredictedObjects)), Zero),
                        ParseClasses(GetField(names, fields, Header.PredictedClasses)))

\* parseCSVToEvaluationData: the image object created for a row.  Its id, status
\* and llmResponse are strings, its cost is in dollars.
ImportedImage(names, fields) ==
    LET costStr == RemoveFirst(GetField(names, fields, Header.Cost), "$")
    IN [id |-> StripJpg(GetField(names, fields, Header.ImageId)),
        filename |-> GetField(names, fields, Header.Filename),
        actualObjects |-> NumberOr(parseInt(GetField(names, fields, Header.ActualObjects)), Zero),
        actualClasses |-> ParseClasses(GetField(names, fields, Header.ActualClasses)),
        predictedObjects |-> NumberOr(parseInt(GetField(names, fields, Header.PredictedObjects)), Zero),
        predictedClasses |-> ParseClasses(GetField(names, fields, Header.PredictedClasses)),
        score |-> RecalculatedScore(names, fields),
        cost |-> IF costStr = <<>> THEN Zero ELSE parseFloat(costStr),
        apiDuration |-> NumberOr(parseInt(GetField(names, fields, Header.ApiDurationMs)), Zero),
        status |-> GetField(names, fields, Header.Status),
        llmResponse |-> GetField(names, fields, Header.LlmResponse)]

\* a loop over the data rows that ends at the first row it cannot use
RECURSIVE ImportRowsUntilFailure(_, _)
ImportRowsUntilFailure(names, lines) ==
    IF Len(lines) = 0 THEN <<>>
    ELSE LET line == Trim(Head(lines))
             fields == parseCSVRow(line)
         IN IF line = <<>> \/ Len(fields) < Len(names) THEN <<>>
            ELSE <<ImportedImage(names, fields)>> \o ImportRowsUntilFailure(names, Tail(lines))

\* parseCSVToEvaluationData: the loop over the data rows; empty lines and rows
\* with fewer fields than headers are skipped
RECURSIVE ImportRows(_, _)
ImportRows(names, lines) ==
    IF Len(lines) = 0 THEN <<>>
    ELSE LET line == Trim(Head(lines))
             fields == parseCSVRow(line)
         IN (IF line = <<>> \/ Len(fields) < Len(names) THEN <<>>
             ELSE <<ImportedImage(names, fields)>>)
            \o ImportRows(names, Tail(lines))

\* parseCSVToEvaluationData(csvContent): the images, or the error thrown for a
\* file without a data line or without a required header
parseCSVToEvaluationData(csvContent) ==
    LET lines == Split(Trim(csvContent), "\n")
        cells == Split(lines[1], ",")
        names == [k \in 1 .. Len(cells) |-> Trim(RemoveAll(cells[k], "\""))]
    IN IF Len(lines) < 2 THEN [thrown |-> TRUE, images |-> <<>>]
       ELSE IF \E k \in 1 .. Len(requiredHeaders) : IndexOf(names, requiredHeaders[k]) = 0
       THEN [thrown |-> TRUE, images |-> <<>>]
       ELSE [thrown |-> FALSE, images |-> ImportRows(names, Tail(lines))]

\* the images a run that came to its end may leave for image i: the fetch
\* failed, the provider gave no content, or it gave one of the contents
RunImages(i) ==
    LET d == CHOOSE x \in Durations : TRUE
        dims == CHOOSE x \in Dimensions : TRUE
    IN {[SampleImage(i) EXCEPT !.status = "error"],
        UpdatedImg(SampleImage(i), ErrorReply(d), d, dims)}
       \cup {UpdatedImg(SampleImage(i), ContentReply(c, d), d, dims) : c \in CsvContents}

\* what a user may write into a Count Accuracy or Class Accuracy cell
AccuracyCells == {<<>>, <<"5", "0", ".", "0", "%">>}

InitCSV ==
    /\ HookAtRest
    /\ \E images \in [1 .. NumImages -> UNION {RunImages(i) : i \in ImageIdx}] :
          /\ \A k \in 1 .. NumImages : images[k] \in RunImages(k - 1)
          /\ call = [pc |-> "result", images |-> images]

\* exportToCSV(result) returns the file
Exported ==
    /\ call.pc = "result"
    /\ call' = [pc |-> "exported", images |-> call.images, csv |-> exportToCSV(call.images)]
    /\ UNCHANGED hookState

\* the user saves a copy of the file in which the Count Accuracy and Class
\* Accuracy cells of one row are overwritten
ScoresEdited ==
    /\ call.pc = "exported"
    /\ \E r \in 1 .. Len(call.images), countCell \in AccuracyCells, classCell \in AccuracyCells :
          LET rows == [k \in 1 .. Len(call.images) |->
                          IF k = r
                          THEN [RowOf(call.images[k]) EXCEPT
                                   ![IndexOf(headers, Header.CountAccuracy)] = countCell,
                                   ![IndexOf(headers, Header.ClassAccuracy)] = classCell]
                          ELSE RowOf(call.images[k])]
          IN call' = [pc |-> "edited", images |-> call.images, csv |-> call.csv,
                      edited |-> CsvContent(<<headers>> \o rows)]
    /\ UNCHANGED hookState

\* parseCSVToEvaluationData returns for the file and for the edited copy
Imported ==
    /\ call.pc = "edited"
    /\ call' = [pc |-> "imported", images |-> call.images, csv |-> call.csv,
                edited |-> call.edited,
                imported |-> parseCSVToEvaluationData(call.csv),
                importedEdited |-> parseCSVToEvaluationData(call.edited)]
    /\ UNCHANGED hookState

NextCSV == Exported \/ ScoresEdited \/ Imported
SpecCSV == InitCSV /\ [][NextCSV]_vars

\* C19: the import of the exported file of a run has one image per image of the
\* run, in the same order, each with the multisets of actual and of predicted
\* classes and the actual and predicted counts of the original (a prediction
\* that was never made counting as 0 objects and no classes), and with the score
\* of the original.
RoundTrip ==
    call.pc = "imported"
    => /\ ~call.imported.thrown
       /\ Len(call.imported.images) = Len(call.images)
       /\ \A k \in 1 .. Len(call.images) :
             k <= Len(call.imported.images)
             => LET original == call.images[k]
                    image == call.imported.images[k]
                IN /\ image.id = NumberToString(FromInt(original.id))
                   /\ image.actualObjects = original.actualObjects
                   /\ Multiset(image.actualClasses) = Multiset(original.actualClasses)
                   /\ image.predictedObjects
                         = (IF IsDefined(original.predictedObjects)
                            THEN original.predictedObjects[1] ELSE Zero)
                   /\ Multiset(image.predictedClasses)
                         = Multiset(IF IsDefined(original.predictedClasses)
                                    THEN original.predictedClasses[1] ELSE <<>>)
                   /\ Some(image.score) = original.score

\* C20: the import of a file and the import of a copy that differs only in the
\* Count Accuracy and Class Accuracy cells of a row are the same images with the
\* same scores, and the score of each image is the one calculateImageScore
\* gives for its counts and classes.
ImportIgnoresStoredScores ==
    call.pc = "imported"
    => /\ call.importedEdited = call.imported
       /\ \A k \in 1 .. Len(call.importedEdited.images) :
             LET image == call.importedEdited.images[k]
             IN image.score = calculateImageScore(image.actualObjects, image.actualClasses,
                                                  image.predictedObjects, image.predictedClasses)

\* a copy with edited score cells was imported: every row became an image, one
\* of them completed with a score that is not the one written into the copy
EditedCopyImported ==
    /\ call.pc = "imported"
    /\ call.edited # call.csv
    /\ Len(call.importedEdited.images) = NumImages
    /\ \E k \in 1 .. NumImages :
          /\ call.importedEdited.images[k].status = StatusChars("completed")
          /\ call.importedEdited.images[k].score.countAccuracy = One
          /\ GetField(headers, parseCSVRow(Split(call.edited, "\n")[k + 1]), Header.CountAccuracy)
                = <<"5", "0", ".", "0", "%">>

\* ------------------------------------------------- import of a damaged file
\* The data lines of a file: the row of an image as the exporter writes it, the
\* same row cut off after some cells, or an empty line.
CutAfter == 10
DataLines(i) ==
    {[kind |-> "row", img |-> img] : img \in RunImages(i)}
    \cup {[kind |-> "short", img |-> img] : img \in RunImages(i)}
    \cup {[kind |-> "blank", img |-> SampleImage(i)]}
CellsOf(dataLine) ==
    IF dataLine.kind = "row" THEN <<RowOf(dataLine.img)>>
    ELSE IF dataLine.kind = "short" THEN <<SubSeq(RowOf(dataLine.img), 1, CutAfter)>>
    ELSE <<<<>>>>
\* the file of the header and the data lines
FileOf(dataLines) ==
    Join(<<CsvContent(<<headers>>)>>
            \o [k \in 1 .. Len(dataLines) |-> CsvContent(CellsOf(dataLines[k]))],
         <<"\n">>)

InitImport ==
    /\ HookAtRest
    /\ \E dataLines \in [1 .. NumImages -> UNION {DataLines(i) : i \in ImageIdx}] :
          /\ \A k \in 1 .. NumImages : dataLines[k] \in DataLines(k - 1)
          /\ call = [pc |-> "file", dataLines |-> dataLines, csv |-> FileOf(dataLines)]

\* parseCSVToEvaluationData(csvContent) returns or throws
FileImported ==
    /\ call.pc = "file"
    /\ call' = [pc |-> "imported", dataLines |-> call.dataLines, csv |-> call.csv,
                imported |-> parseCSVToEvaluationData(call.csv)]
    /\ UNCHANGED hookState

NextImport == FileImported
SpecImport == InitImport /\ [][NextImport]_vars

WellFormed(dataLines) == SelectSeq(dataLines, LAMBDA dl : dl.kind = "row")

\* the import returned one image per well-formed row, in file order, each the
\* image the file of the header and the well-formed rows alone imports to
ImportedTheWellFormedRows ==
    LET rows == WellFormed(call.dataLines)
        images == call.imported.images
    IN /\ ~call.imported.thrown
       /\ Len(images) = Len(rows)
       /\ \A k \in 1 .. Len(rows) :
             k <= Len(images) => images[k].id = NumberToString(FromInt(rows[k].img.id))
       /\ Len(rows) > 0 => images = parseCSVToEvaluationData(FileOf(rows)).images

\* C21 (as stated): the import of a file with a valid header returns exactly one
\* image per well-formed data row, in file order; a row with too few fields or
\* an empty line is skipped, does not abort the import and does not change the
\* images of the other rows.
RowFailuresAreIsolated ==
    call.pc = "imported" => ImportedTheWellFormedRows

\* C21 (amended): the same, for a file that has at least one data line that is
\* not empty; a file without one is rejected as a whole.
RowFailuresAreIsolatedInFilesWithData ==
    call.pc = "imported"
    => IF \E k \in 1 .. Len(call.dataLines) : call.dataLines[k].kind # "blank"
       THEN ImportedTheWellFormedRows
       ELSE call.imported.thrown /\ call.imported.images = <<>>

\* a row cut short stood before a well-formed row, and only the well-formed row
\* became an image
ShortRowSkipped ==
    /\ call.pc = "imported"
    /\ call.dataLines[1].kind = "short"
    /\ call.dataLines[NumImages].kind = "row"
    /\ Len(call.imported.images) = Len(WellFormed(call.dataLines))
    /\ call.imported.images[Len(call.imported.images)].status
          = StatusChars(call.dataLines[NumImages].img.status)

\* ------------------------------------------------------ analyzeImageWithLLM
\* the providers of the switch, and an id that getProviderById does not know
Providers == {"openai", "anthropic", "groq", "azure", "aws", "google", "xai"}
UnknownProvider == "other"
\* what the HTTP exchange with a provider comes to: fetch rejects, a non-2xx
\* reply with an error payload, a non-2xx reply whose body is not JSON, a 2xx
\* reply without content, a 2xx reply with content
Exchanges == {"networkFailure", "rejected", "rejectedUnreadable", "empty", "content"}

\* the outcome of a block of code: a value, or an Error with a message
Returns(value) == [thrown |-> FALSE, value |-> value, message |-> "none"]
Throws(message) == [thrown |-> TRUE, value |-> NoCall, message |-> message]

\* callOpenAI and its siblings: the body of the provider call
CallProvider(exchange, c, d) ==
    IF exchange = "networkFailure" THEN Throws("Failed to fetch")
    ELSE IF exchange = "rejected" THEN Throws("API error")
    ELSE IF exchange = "rejectedUnreadable" THEN Throws("Unexpected token in JSON")
    ELSE IF exchange = "empty" THEN Throws("No response")
    ELSE Returns(ContentReply(c, d))

\* analyzeImageWithLLM, the try block
TryAnalyze(provider, hasKey, exchange, c, d) ==
    IF provider \notin Providers THEN Throws("Provider not found")
    ELSE IF ~hasKey THEN Throws("API key not found for provider")
    ELSE CallProvider(exchange, c, d)

\* a catch branch that hands the error on
Rethrow(attempt, d) == attempt

\* analyzeImageWithLLM, the catch branch: content '', the message, the duration
CatchError(attempt, d) ==
    IF attempt.thrown
    THEN Returns([content |-> EmptyText, error |-> Some(attempt.message), duration |-> d,
                  usage |-> Undefined])
    ELSE attempt

InitAdapter ==
    /\ HookAtRest
    /\ \E provider \in Providers \cup {UnknownProvider}, hasKey \in BOOLEAN,
          exchange \in Exchanges, c \in Contents, d \in Durations :
          call = [pc |-> "request", provider |-> provider, hasKey |-> hasKey,
                  exchange |-> exchange, content |-> c, elapsed |-> d]

\* analyzeImageWithLLM settles
Analyzed ==
    /\ call.pc = "request"
    /\ call' = [pc |-> "settled", provider |-> call.provider, hasKey |-> call.hasKey,
                exchange |-> call.exchange, content |-> call.content, elapsed |-> call.elapsed,
                outcome |-> CatchError(TryAnalyze(call.provider, call.hasKey, call.exchange,
                                                  call.content, call.elapsed),
                                       call.elapsed)]
    /\ UNCHANGED hookState

NextAdapter == Analyzed
SpecAdapter == InitAdapter /\ [][NextAdapter]_vars

\* C22: analyzeImageWithLLM never throws for a failure it detects: for an
\* unknown provider, a missing credential, a network failure, a non-2xx reply
\* and an empty reply it returns a value with empty content, the message in its
\* error field and its duration.
AdapterReturnsItsFailures ==
    (/\ call.pc = "settled"
     /\ \/ call.provider \notin Providers
        \/ ~call.hasKey
        \/ call.exchange # "content")
    => /\ ~call.outcome.thrown
       /\ call.outcome.value.content = EmptyText
       /\ IsDefined(call.outcome.value.error)
       /\ call.outcome.value.error[1]
             = (IF call.provider \notin Providers THEN "Provider not found"
                ELSE IF ~call.hasKey THEN "API key not found for provider"
                ELSE TryAnalyze(call.provider, TRUE, call.exchange, call.content,
                                call.elapsed).message)
       /\ call.outcome.value.duration = call.elapsed

\* a known provider with a credential answered with a non-2xx reply, and the
\* adapter returned it
RejectionReturned ==
    /\ call.pc = "settled"
    /\ call.provider \in Providers
    /\ call.hasKey
    /\ call.exchange = "rejected"
    /\ ~call.outcome.thrown
    /\ call.outcome.value.error = Some("API error")

\* ============================================================== two models
\* Two selected models, each with a sample that was evaluated before, so that
\* runs and reruns of both are in flight together.
TwoModels == {"A", "B"}
OutcomesBefore == [k \in 1 .. NumImages |-> IF k = 1 THEN "noContent" ELSE "error"]

InitTwoModels ==
    /\ apiKey \in BOOLEAN
    /\ modelEvaluations = [m \in TwoModels |-> EvaluatedBefore(m, OutcomesBefore)]
    /\ stopFlags = [m \in TwoModels |-> FALSE]
    /\ loops = [l \in LoopIds |-> IdleLoop]
    /\ reruns = [r \in RerunIds |-> IdleRerun]
    /\ rerunningImage = Undefined
    /\ userCalls = 0
    /\ config \in [apiDelaySeconds : DelaySeconds]
    /\ call = NoCall

NextTwoModels ==
    \/ \E m \in TwoModels : runEvaluation(m, config)
    \/ \E l \in LoopIds : LoopFetched(l)
    \/ \E l \in LoopIds : LoopFetchFailed(l)
    \/ \E l \in LoopIds : LoopReplied(l)
    \/ \E l \in LoopIds : LoopDelayed(l)
    \/ \E m \in TwoModels : stopEvaluation(m)
    \/ \E m \in TwoModels : resetEvaluation(m)
    \/ \E m \in TwoModels, k \in ImageIdx : rerunImageEvaluation(m, k)
    \/ \E r \in RerunIds : RerunFetched(r)
    \/ \E r \in RerunIds : RerunFetchFailed(r)
    \/ \E r \in RerunIds : RerunReplied(r)

SpecTwoModels == InitTwoModels /\ [][NextTwoModels]_vars

\* a step of runEvaluation, rerunImageEvaluation, stopEvaluation or
\* resetEvaluation for model m
StepFor(m) ==
    \/ runEvaluation(m, config)
    \/ stopEvaluation(m)
    \/ resetEvaluation(m)
    \/ \E k \in ImageIdx : rerunImageEvaluation(m, k)
    \/ \E l \in LoopIds :
          /\ InFlight(loops[l])
          /\ IF InFlight(loops[l]) THEN loops[l].modelId = m ELSE FALSE
          /\ (LoopFetched(l) \/ LoopFetchFailed(l) \/ LoopReplied(l) \/ LoopDelayed(l))
    \/ \E r \in RerunIds :
          /\ InFlight(reruns[r])
          /\ IF InFlight(reruns[r]) THEN reruns[r].modelId = m ELSE FALSE
          /\ (RerunFetched(r) \/ RerunFetchFailed(r) \/ RerunReplied(r))

\* C23: every step of runEvaluation, rerunImageEvaluation, stopEvaluation and
\* resetEvaluation for one model leaves the entry of every other model (images,
\* results, isRunning, currentImageIndex, progress) and its stop flag as they
\* were, under any interleaving of the models' calls.
RunsOfModelsAreIndependent ==
    [][\A m \in TwoModels, o \in TwoModels :
          (m # o /\ StepFor(m)) =>
              /\ o \in DOMAIN modelEvaluations'
              /\ modelEvaluations'[o] = modelEvaluations[o]
              /\ stopFlags'[o] = stopFlags[o]]_vars

\* a loop of one model is between two images while the other model, which the
\* user has reset since, is no longer as it was before
BothModelsActed ==
    /\ \E l \in LoopIds : IF InFlight(loops[l]) THEN loops[l].modelId = "A" /\ loops[l].i = 1
                          ELSE FALSE
    /\ modelEvaluations["B"].results = Undefined

\* ========================================================== inter-call delay
\* the step of loop l that ends its image: the fetch failed or the last provider
\* attempt returned (a step into the next attempt does not end the image)
EndsImage(l) ==
    /\ loops[l].pc \in {"fetch", "call"}
    /\ loops'[l] # loops[l]
    /\ IF InFlight(loops'[l])
       THEN ~(loops'[l].pc = "call" /\ loops'[l].i = loops[l].i)
       ELSE TRUE

\* the step of loop l that starts its next image
StartsNextImage(l) ==
    /\ InFlight(loops[l])
    /\ IF InFlight(loops[l]) /\ InFlight(loops'[l])
       THEN loops'[l].pc = "fetch" /\ loops'[l].i = loops[l].i + 1
       ELSE FALSE

\* the loop awaits the timer of apiDelaySeconds seconds after image i
Waits(lp) == InFlight(lp) /\ (IF InFlight(lp) THEN lp.pc = "delay" ELSE FALSE)

\* C24: with a positive configured delay the loop awaits a timer of that many
\* seconds after every image but the last, whether the image ended completed or
\* error, and starts the next image only when that timer has fired; it awaits no
\* timer after the last image, and none at all when the delay is 0.
DelayBetweenImages ==
    /\ [](\A l \in LoopIds : Waits(loops[l]) =>
              /\ loops[l].apiDelaySeconds = config.apiDelaySeconds
              /\ loops[l].apiDelaySeconds > 0
              /\ loops[l].i < Len(loops[l].results) - 1
              /\ loops[l].results[loops[l].i + 1].status \in {"completed", "error"})
    /\ [][\A l \in LoopIds :
            /\ EndsImage(l) =>
                  (Waits(loops'[l]) <=>
                      (loops[l].apiDelaySeconds > 0 /\ loops[l].i < Len(loops[l].results) - 1))
            /\ StartsNextImage(l) =>
                  (Waits(loops[l]) <=> loops[l].apiDelaySeconds > 0)]_vars

\* the loop waits after an image that ended in error
WaitsAfterFailedImage ==
    \E l \in LoopIds :
        /\ Waits(loops[l])
        /\ IF Waits(loops[l]) THEN loops[l].results[loops[l].i + 1].status = "error"
           ELSE FALSE

\* ===================================== parseLLMResponse, objects of any shape
\* The object JSON.parse returns, as far as the parser looks at it: `count` (or
\* JAbsent) and, for each of the keys objects, aircraft and classes, the array
\* it holds, if it holds one.  An entry of objects has a class and a confidence,
\* an entry of aircraft a class_id, an entry of classes is the id itself.
ParsedObject(count, objects, aircraft, classes) ==
    [count |-> count, objects |-> objects, aircraft |-> aircraft, classes |-> classes]

\* typeof conf === 'number' && conf >= 0 && conf <= 1
IsValidConfidence(conf) ==
    conf.t = "number" /\ FracLeq(Zero, conf.q) /\ FracLeq(conf.q, One)

\* parsed.objects.map(obj => obj.class), parsed.objects.map(obj => obj.confidence)
ObjectClasses(objects) == [k \in 1 .. Len(objects) |-> objects[k].class]
ObjectConfidences(objects) == [k \in 1 .. Len(objects) |-> objects[k].confidence]

\* a parser that looks at the keys in the order of its fallback: classes,
\* objects, aircraft
ParseObjectClassesFirst(parsed) ==
    [count |-> IF parsed.count.t # "undefined" THEN parsed.count.q ELSE Zero,
     classes |-> IF IsDefined(parsed.classes) THEN ValidClasses(parsed.classes[1])
                 ELSE IF IsDefined(parsed.objects)
                 THEN ValidClasses(ObjectClasses(parsed.objects[1]))
                 ELSE IF IsDefined(parsed.aircraft) THEN ValidClasses(parsed.aircraft[1])
                 ELSE <<>>,
     classConfidences |-> Undefined]

\* parseLLMResponse after JSON.parse: the branches for the objects, the
\* aircraft and the classes array of an object with a count, in this order, and
\* the fallback.  Only the objects branch returns classConfidences, and only
\* when a confidence passed its filter.
ParseObject(parsed) ==
    IF parsed.count.t # "undefined" /\ IsDefined(parsed.objects)
    THEN LET kept == SelectSeq(ObjectConfidences(parsed.objects[1]), IsValidConfidence)
             classConfidences == [k \in 1 .. Len(kept) |-> kept[k].q]
         IN [count |-> parsed.count.q,
             classes |-> ValidClasses(ObjectClasses(parsed.objects[1])),
             classConfidences |-> IF Len(classConfidences) > 0 THEN Some(classConfidences)
                                  ELSE Undefined]
    ELSE IF parsed.count.t # "undefined" /\ IsDefined(parsed.aircraft)
    THEN [count |-> parsed.count.q,
          classes |-> ValidClasses(parsed.aircraft[1]),
          classConfidences |-> Undefined]
    ELSE IF parsed.count.t # "undefined" /\ IsDefined(parsed.classes)
    THEN [count |-> parsed.count.q,
          classes |-> ValidClasses(parsed.classes[1]),
          classConfidences |-> Undefined]
    ELSE ParseObjectClassesFirst(parsed)

\* the entries of objects examined: class 0, 1 or 9, and a confidence within
\* [0, 1], outside of it, or none
ObjectEntries ==
    [class : {JNumber(Zero), JNumber(One), JNumber(FromInt(MaxClassId + 3))},
     confidence : {JNumber(Frac(1, 2)), JNumber(Frac(3, 2)), JAbsent}]
\* an array of class ids, if any: none, the empty one, one valid id, one id
\* past the range
ListsOf(id) == {Undefined, Some(<<>>), Some(<<JNumber(FromInt(id))>>),
                Some(<<JNumber(FromInt(MaxClassId + 3))>>)}

ParsedObjects ==
    {ParsedObject(count, objects, aircraft, classes) :
        count \in {JAbsent, JNumber(FromInt(2)), JString(FromInt(2))},
        objects \in {Undefined} \cup {Some(s) : s \in SeqsUpTo(ObjectEntries, MaxItems)},
        aircraft \in ListsOf(2),
        classes \in ListsOf(3)}

InitShapes ==
    /\ HookAtRest
    /\ \E parsed \in ParsedObjects : call = [pc |-> "object", parsed |-> parsed]

\* parseLLMResponse returns for a response that is the JSON text of `parsed`
ObjectParsed ==
    /\ call.pc = "object"
    /\ call' = [pc |-> "extracted", parsed |-> call.parsed,
                result |-> ParseObject(call.parsed)]
    /\ UNCHANGED hookState

NextShapes == ObjectParsed
SpecShapes == InitShapes /\ [][NextShapes]_vars

\* the arrays of class values of the object under its recognized keys, in the
\* order objects, aircraft, classes
RecognizedArrays(parsed) ==
    (IF IsDefined(parsed.objects) THEN <<ObjectClasses(parsed.objects[1])>> ELSE <<>>)
    \o (IF IsDefined(parsed.aircraft) THEN <<parsed.aircraft[1]>> ELSE <<>>)
    \o (IF IsDefined(parsed.classes) THEN <<parsed.classes[1]>> ELSE <<>>)

ObjectsKept(objects) == SelectSeq(objects, LAMBDA obj : IsValidClassId(obj.class))

\* C29: whenever parseLLMResponse returns classConfidences, the list is as long
\* as the returned classes and its k-th entry is the confidence of the object
\* that supplied the k-th class id, also when objects are dropped.
ConfidencesAlignWithClasses ==
    (/\ call.pc = "extracted"
     /\ IF call.pc = "extracted" THEN IsDefined(call.result.classConfidences) ELSE FALSE)
    => LET kept == ObjectsKept(call.parsed.objects[1])
           classConfidences == call.result.classConfidences[1]
       IN /\ Len(classConfidences) = Len(call.result.classes)
          /\ \A k \in 1 .. Len(kept) :
                /\ k <= Len(classConfidences)
                /\ kept[k].confidence.t = "number"
                /\ classConfidences[k] = kept[k].confidence.q

\* ======================================================= averages of results
\* C28: averageCountAccuracy and averageClassAccuracy of every results object
\* are numbers within [0, 1], and both are 0 when no image of the results has
\* status completed.
AveragesAreFiniteInUnitInterval ==
    \A m \in DOMAIN modelEvaluations :
        IsDefined(modelEvaluations[m].results)
        => LET results == modelEvaluations[m].results[1]
           IN /\ InUnitInterval(results.averageCountAccuracy)
              /\ InUnitInterval(results.averageClassAccuracy)
              /\ (\A k \in 1 .. Len(results.images) : results.images[k].status # "completed")
                 => /\ results.averageCountAccuracy = Zero
                    /\ results.averageClassAccuracy = Zero

\* ============================================================== termination
\* Every fetch, provider call and timer a loop of runEvaluation awaits
\* eventually completes.  For the fetch and the timer this is weak fairness of
\* the step that follows the await.  For the provider call it is weak fairness
\* of LoopReplied(l), written by its enabling condition: LoopReplied(l) is
\* enabled exactly while the loop awaits its attempt number c, and taking it ends
\* that await, so the loop does not await the same attempt forever.  The calls
\* of the user are under no such condition.
AwaitsReply(lp, c) == InFlight(lp) /\ (IF InFlight(lp) THEN lp.pc = "call" /\ lp.calls = c ELSE FALSE)

SpecFair ==
    /\ Init
    /\ [][Next]_vars
    /\ \A l \in LoopIds : WF_vars(LoopFetched(l) \/ LoopFetchFailed(l))
    /\ \A l \in LoopIds : WF_vars(LoopDelayed(l))
    /\ \A l \in LoopIds, c \in 1 .. maxRetries : []<>(~AwaitsReply(loops[l], c))

\* the call of runEvaluation(m) in slot l is in flight
Running(l, m) == InFlight(loops[l]) /\ (IF InFlight(loops[l]) THEN loops[l].modelId = m ELSE FALSE)

\* the call in slot l has returned and left isRunning = false and a results object
Returned(l, m) ==
    /\ ~InFlight(loops[l])
    /\ m \in DOMAIN modelEvaluations
    /\ ~modelEvaluations[m].isRunning
    /\ IsDefined(modelEvaluations[m].results)

\* C26: every call of runEvaluation terminates: the loop makes one pass over the
\* images (its index never goes back) with at most 3 provider calls per image,
\* and the call eventually returns with isRunning = false and a results object
\* set, whether or not stop was requested.
RunEvaluationTerminates ==
    /\ [](\A l \in LoopIds : InFlight(loops[l]) => loops[l].calls <= maxRetries)
    /\ [][\A l \in LoopIds :
            (InFlight(loops[l]) /\ InFlight(loops'[l]) /\ loops[l].pc # "start")
            => (IF InFlight(loops[l]) /\ InFlight(loops'[l])
                THEN loops'[l].i >= loops[l].i ELSE TRUE)]_vars
    /\ \A l \in LoopIds, m \in ModelIds : Running(l, m) ~> Returned(l, m)

\* a run has returned with results after a stop was requested during it
ReturnedAfterStop ==
    \E m \in ModelIds :
        /\ stopFlags[m]
        /\ \A l \in LoopIds : ~InFlight(loops[l])
        /\ ~modelEvaluations[m].isRunning
        /\ IsDefined(modelEvaluations[m].results)

\* ============================================================ a run in flight
\* The state runEvaluation(m, config) leaves at its first await on the
\* generated sample: the flag cleared, isRunning set, image 0 processing.
RunInFlight(m, cfg) ==
    LoopTop(SetEvaluation(generateSample, m,
                [generateSample[m] EXCEPT !.isRunning = TRUE,
                                          !.progress = Zero,
                                          !.currentImageIndex = 0]),
            [x \in ModelIds |-> FALSE],
            [pc |-> "start", modelId |-> m, i |-> 0,
             results |-> generateSample[m].images,
             totalCost |-> 0, totalDuration |-> 0,
             retryCount |-> 0, response_data |-> Undefined,
             apiDelaySeconds |-> cfg.apiDelaySeconds, calls |-> 0, waited |-> 0],
            0)

InitRunning ==
    /\ apiKey \in BOOLEAN
    /\ config \in [apiDelaySeconds : DelaySeconds]
    /\ \E m \in ModelIds :
          /\ modelEvaluations = RunInFlight(m, config).me
          /\ loops = [l \in LoopIds |-> IF l = 1 THEN RunInFlight(m, config).lp ELSE IdleLoop]
    /\ stopFlags = [m \in ModelIds |-> FALSE]
    /\ reruns = [r \in RerunIds |-> IdleRerun]
    /\ rerunningImage = Undefined
    /\ userCalls = 0
    /\ call = NoCall

\* the calls the user makes while a run is in flight
SpecRunning == InitRunning /\ [][Next]_vars

\* C27: a stop request is never lost.  Once the flag of a model is set while a
\* loop of the model is in flight, the flag stays set and the loop starts no
\* other image until it has halted, also when runEvaluation is called again in
\* between; so the loops of a model in flight while its flag is not set, which
\* all go on to their next image, are at most one.
StopRequestIsNeverLost ==
    /\ [][\A l \in LoopIds :
            (InFlight(loops[l]) /\ stopFlags[loops[l].modelId])
            => IF InFlight(loops'[l])
               THEN /\ stopFlags'[loops[l].modelId]
                    /\ loops'[l].i = loops[l].i
               ELSE TRUE]_vars
    /\ [](\A m \in ModelIds :
            ~stopFlags[m] => Cardinality({l \in LoopIds : Running(l, m)}) <= 1)

\* ================================================================ removeModel
\* removeModel(modelId): the entry of the model is deleted (selectedModels is
\* not modelled); the stop flag and the processes in flight are left alone
removeModel(m) ==
    /\ userCalls < MaxCalls
    /\ userCalls' = userCalls + 1
    /\ m \in DOMAIN modelEvaluations
    /\ modelEvaluations' = [x \in (DOMAIN modelEvaluations) \ {m} |-> modelEvaluations[x]]
    /\ UNCHANGED <<stopFlags, apiKey, loops, reruns, rerunningImage, config, call>>

NextRemoval ==
    \/ Next
    \/ \E m \in ModelIds : removeModel(m)

\* the calls the user makes while a run is in flight, removeModel among them;
\* no new sample is generated
SpecRemoval == InitRunning /\ [][NextRemoval]_vars

\* C30: removeModel(m) leaves no entry for m, and while no new sample is
\* generated no later step creates one, also when a run or a rerun of m was in
\* flight at the removal.
RemovedModelStaysRemoved ==
    [][\A m \in ModelIds :
          /\ removeModel(m) => m \notin DOMAIN modelEvaluations'
          /\ m \notin DOMAIN modelEvaluations => m \notin DOMAIN modelEvaluations']_vars

\* ==================================================================== claims
LoopsOf(m) == {l \in LoopIds : InFlight(loops[l]) /\ loops[l].modelId = m}
RerunsOf(m) == {r \in RerunIds : InFlight(reruns[r]) /\ reruns[r].modelId = m}
ImagesOf(m) == modelEvaluations[m].images
Terminal == {"completed", "error", "failed"}
\* what an image record shows: a field that is undefined and a field that is
\* cleared (0, no classes, the empty string) show the same
Shown(img) ==
    [status |-> img.status,
     predictedObjects |-> IF IsDefined(img.predictedObjects) THEN img.predictedObjects[1]
                          ELSE Zero,
     predictedClasses |-> IF IsDefined(img.predictedClasses) THEN img.predictedClasses[1] ELSE <<>>,
     llmResponse |-> IF IsDefined(img.llmResponse) THEN img.llmResponse[1] ELSE EmptyText,
     score |-> img.score,
     apiDuration |-> OrElse(img.apiDuration, 0),
     cost |-> OrElse(img.cost, 0)]

\* C1: once stopEvaluation has set the cancel flag of a model while its loop is
\* in flight, and as long as no run of that model clears it again, the loop
\* starts no image of larger index than the one in flight (the image in flight
\* may still finish) and the images of larger index stay pending.
StopStartsNoFurtherImage ==
    [][\A l \in LoopIds :
          (/\ InFlight(loops[l])
           /\ LoopsOf(loops[l].modelId) = {l}
           /\ stopFlags[loops[l].modelId]
           /\ stopFlags'[loops[l].modelId])
          => /\ InFlight(loops'[l]) => loops'[l].i = loops[l].i
             /\ \A j \in ImageIdx :
                   j > loops[l].i =>
                      modelEvaluations'[loops[l].modelId].images[j + 1].status = "pending"]_vars

\* C2: stop is a full wipe.  When the cancel flag of a model is set and its loop
\* has halted, every image is pending with prediction, score, response, cost and
\* duration cleared, and there is no results object.
StopIsFullWipe ==
    \A m \in DOMAIN modelEvaluations :
        (stopFlags[m] /\ LoopsOf(m) = {} /\ RerunsOf(m) = {})
        => /\ \A k \in 1 .. Len(ImagesOf(m)) :
                 Shown(ImagesOf(m)[k]) = Shown(WipeImage(ImagesOf(m)[k]))
           /\ ~IsDefined(modelEvaluations[m].results)

\* C3: an image for which the provider gave no non-empty content on any attempt
\* of its retry budget (its stored response is the error text) ends with status
\* error, not completed.
NoContentEndsInError ==
    \A m \in DOMAIN modelEvaluations :
        \A k \in 1 .. Len(ImagesOf(m)) :
            LET img == ImagesOf(m)[k]
            IN (IsDefined(img.llmResponse) /\ img.llmResponse[1] = ErrorText
                   /\ img.status \in Terminal)
               => img.status \in {"error", "failed"}

\* C4: per-image failure isolation.  When processing image i throws, image i is
\* marked error, no other image record changes (but for image i + 1 being marked
\* processing by the next iteration) and the run goes on to image i + 1 unless
\* it was the last image or the run was stopped.
FailureIsolation ==
    [][\A l \in LoopIds :
          LoopFetchFailed(l)
          => LET m == loops[l].modelId
                 i == loops[l].i
             IN /\ modelEvaluations'[m].images[i + 1].status = "error"
                /\ \A j \in ImageIdx :
                      j # i =>
                         \/ Shown(modelEvaluations'[m].images[j + 1]) = Shown(ImagesOf(m)[j + 1])
                         \/ /\ j = i + 1
                            /\ Shown(modelEvaluations'[m].images[j + 1]) =
                                  [Shown(ImagesOf(m)[j + 1]) EXCEPT !.status = "processing"]
                /\ (i < NumImages - 1 /\ ~stopFlags[m])
                   => /\ InFlight(loops'[l])
                      /\ \/ loops'[l].i = i + 1
                         \/ loops'[l].pc = "delay"]_vars

\* the provider attempts of one run or rerun process, as its record counts them
AttemptsInBudget(p) ==
    InFlight(p) =>
       /\ p.calls <= maxRetries
       /\ p.pc = "fetch" => p.calls = 0
       /\ p.pc = "call" => /\ p.calls >= 1
                           /\ p.calls = p.retryCount + 1
                           /\ p.waited = BackoffMs * (p.calls - 1)
       \* an attempt after the first follows a reply without content
       /\ (p.pc = "call" /\ p.calls > 1)
          => IsDefined(p.response_data) /\ ~HasContent(p.response_data[1])

\* a step in which the loop l is through with its image
LoopFinishesImage(l) ==
    /\ InFlight(loops[l])
    /\ loops[l].pc \in {"fetch", "call"}
    /\ \/ ~InFlight(loops'[l])
       \/ loops'[l].pc = "delay"
       \/ loops'[l].i # loops[l].i

\* a step in which the rerun r is through with its image
RerunFinishesImage(r) == InFlight(reruns[r]) /\ ~InFlight(reruns'[r])

\* attempt k + 1 of a process follows attempt k in one step, after a reply
\* without content and a wait of k * 1000 ms
NextAttempt(p, q) ==
    (InFlight(p) /\ InFlight(q) /\ q.calls # p.calls /\ q.pc = "call")
    => /\ q.calls = p.calls + 1
       /\ p.calls >= 1 => /\ p.pc = "call"
                          /\ ~HasContent(q.response_data[1])
                          /\ q.waited = BackoffMs * p.calls

\* C5 as the code has it: for each image whose bytes were fetched and encoded,
\* by the run loop or by a rerun, the provider adapter is called at least once
\* and at most 3 times; attempt k + 1 is made only after attempt k returned no
\* content, and after a wait of k * 1000 ms; no attempt follows a reply with
\* content.  When the fetch throws, the adapter is not called for that image.
RetryBudgetOfFetchedImages ==
    /\ [](\A l \in LoopIds : AttemptsInBudget(loops[l]))
    /\ [](\A r \in RerunIds : AttemptsInBudget(reruns[r]))
    /\ [][/\ \A l \in LoopIds :
                /\ (InFlight(loops[l]) /\ InFlight(loops'[l]) /\ loops'[l].i = loops[l].i)
                   => NextAttempt(loops[l], loops'[l])
                /\ LoopFinishesImage(l)
                   => IF loops[l].pc = "call"
                      THEN loops[l].calls >= 1 /\ loops[l].calls <= maxRetries
                      ELSE loops[l].calls = 0
          /\ \A r \in RerunIds :
                /\ NextAttempt(reruns[r], reruns'[r])
                /\ RerunFinishesImage(r)
                   => IF reruns[r].pc = "call"
                      THEN reruns[r].calls >= 1 /\ reruns[r].calls <= maxRetries
                      ELSE reruns[r].calls = 0]_vars

\* a loop in the third attempt for its image, after waits of 1000 and 2000 ms
\* that followed two replies without content
ThirdAttemptInFlight ==
    \E l \in LoopIds :
        /\ InFlight(loops[l]) /\ loops[l].pc = "call"
        /\ loops[l].calls = maxRetries /\ loops[l].waited = 2 * BackoffMs
        /\ ~HasContent(loops[l].response_data[1])

\* C5: for each image processed by the run loop or by a rerun the provider
\* adapter is called at least once and at most 3 times (with the order of the
\* attempts and the waits between them as in the code).
RetryBudget ==
    /\ [](\A l \in LoopIds : AttemptsInBudget(loops[l]))
    /\ [](\A r \in RerunIds : AttemptsInBudget(reruns[r]))
    /\ [][/\ \A l \in LoopIds :
                /\ (InFlight(loops[l]) /\ InFlight(loops'[l]) /\ loops'[l].i = loops[l].i)
                   => NextAttempt(loops[l], loops'[l])
                /\ LoopFinishesImage(l)
                   => loops[l].calls >= 1 /\ loops[l].calls <= maxRetries
          /\ \A r \in RerunIds :
                /\ NextAttempt(reruns[r], reruns'[r])
                /\ RerunFinishesImage(r)
                   => reruns[r].calls >= 1 /\ reruns[r].calls <= maxRetries]_vars

\* C6: without a credential for the model's provider runEvaluation aborts before
\* its loop starts: no image is ever marked processing, no provider attempt is
\* made and no retry wait is taken.
NoCredentialAbortsBeforeLoop ==
    ~apiKey =>
       /\ \A m \in DOMAIN modelEvaluations :
             \A k \in 1 .. Len(ImagesOf(m)) : ImagesOf(m)[k].status # "processing"
       /\ \A l \in LoopIds : InFlight(loops[l]) => loops[l].calls = 0 /\ loops[l].waited = 0

\* the indexes of the images of m that are processing, in images or in
\* results.images
ProcessingOf(m) ==
    {k \in 1 .. Len(ImagesOf(m)) : ImagesOf(m)[k].status = "processing"} \cup
    (IF IsDefined(modelEvaluations[m].results)
     THEN {k \in 1 .. Len(modelEvaluations[m].results[1].images) :
              modelEvaluations[m].results[1].images[k].status = "processing"}
     ELSE {})

\* the processes of m that await a reply of the provider
ProviderCallsInFlight(m) ==
    Cardinality({l \in LoopsOf(m) : loops[l].pc = "call"}) +
    Cardinality({r \in RerunsOf(m) : reruns[r].pc = "call"})

\* C7: under any interleaving of run, stop, reset and rerun requests on one
\* model, at most one image of the model is processing and at most one provider
\* call of the model is in flight.
SequentialExecution ==
    \A m \in DOMAIN modelEvaluations :
        /\ Cardinality(ProcessingOf(m)) <= 1
        /\ ProviderCallsInFlight(m) <= 1

\* C8: whenever a run is reported finished (results set, isRunning false,
\* progress 100) no image is pending or processing, and the results object holds
\* exactly those terminal records.
FinishedRunIsTerminal ==
    \A m \in DOMAIN modelEvaluations :
        LET cur == modelEvaluations[m]
        IN (IsDefined(cur.results) /\ ~cur.isRunning /\ cur.progress = Hundred
               /\ RerunsOf(m) = {})
           => /\ \A k \in 1 .. Len(cur.images) : cur.images[k].status \in Terminal
              /\ cur.results[1].images = cur.images

\* the mean of the fractions of s
Mean(s) == FracDivInt(FracSum(s), Len(s))

\* C9: when results exist and nothing of the model is in flight, the average
\* accuracies are the means of the scores of exactly the completed images, the
\* total cost is the sum of the images' cost and the duration is the sum of the
\* images' apiDuration.
AggregatesConsistent ==
    \A m \in DOMAIN modelEvaluations :
        (IsDefined(modelEvaluations[m].results) /\ LoopsOf(m) = {} /\ RerunsOf(m) = {})
        => LET results == modelEvaluations[m].results[1]
               completed == SelectSeq(results.images, LAMBDA img : img.status = "completed")
               n == Len(completed)
           IN /\ n > 0 =>
                    /\ results.averageCountAccuracy =
                          Mean([k \in 1 .. n |-> CountAccuracyOrZero(completed[k])])
                    /\ results.averageClassAccuracy =
                          Mean([k \in 1 .. n |-> ClassAccuracyOrZero(completed[k])])
              /\ results.totalCost =
                    SumSeq([k \in 1 .. Len(results.images) |-> CostOf(results.images[k])])
              /\ results.duration =
                    SumSeq([k \in 1 .. Len(results.images) |-> DurationOf(results.images[k])])

\* C10: a step of rerunImageEvaluation(m, k) changes the record of image k only:
\* the records of the other images, in images and in results.images, the cancel
\* flag, isRunning, currentImageIndex and progress are as they were.
RerunChangesOnlyItsImage ==
    [][\A r \in RerunIds :
          reruns'[r] # reruns[r]
          => LET p == IF InFlight(reruns[r]) THEN reruns[r] ELSE reruns'[r]
                 m == p.modelId
                 cur == modelEvaluations[m]
                 new == modelEvaluations'[m]
             IN /\ stopFlags' = stopFlags
                /\ new.isRunning = cur.isRunning
                /\ new.currentImageIndex = cur.currentImageIndex
                /\ new.progress = cur.progress
                /\ \A j \in ImageIdx :
                      j # p.imageIndex =>
                         /\ Shown(new.images[j + 1]) = Shown(cur.images[j + 1])
                         /\ (IsDefined(cur.results) /\ IsDefined(new.results))
                            => Shown(new.results[1].images[j + 1]) =
                                  Shown(cur.results[1].images[j + 1])]_vars

\* C11: resetEvaluation of a model whose loop is in flight does what
\* stopEvaluation does: it sets the cancel flag of the model, so that the loop
\* halts at its next iteration check, and it clears results, currentImageIndex
\* and progress; and while the model stays reset (not running, index 0, no
\* results) its loop starts no further image.
ResetHaltsTheRun ==
    [][\A m \in ModelIds :
          /\ (resetEvaluation(m) /\ LoopsOf(m) # {})
             => /\ stopFlags'[m]
                /\ ~modelEvaluations'[m].isRunning
                /\ modelEvaluations'[m].results = Undefined
                /\ modelEvaluations'[m].currentImageIndex = 0
                /\ modelEvaluations'[m].progress = Zero
          /\ \A l \in LoopIds :
                (/\ InFlight(loops[l])
                 /\ loops[l].modelId = m
                 /\ stopFlags[m]
                 /\ stopFlags'[m]
                 /\ InFlight(loops'[l]))
                => loops'[l].i = loops[l].i]_vars

\* C12: in every state the progress of a model is the percentage
\* currentImageIndex / number of images, the state written when the loop ends
\* (normally or after a cancellation) included, and currentImageIndex is at most
\* the number of images; while a loop of the model is in flight,
\* currentImageIndex does not decrease.
ProgressTracksIndex ==
    /\ [](\A m \in ModelIds :
             LET cur == modelEvaluations[m]
             IN /\ cur.currentImageIndex <= Len(cur.images)
                /\ cur.progress = Percent(cur.currentImageIndex, Len(cur.images)))
    /\ [][\A l \in LoopIds :
             (InFlight(loops[l]) /\ InFlight(loops'[l]))
             => modelEvaluations'[loops[l].modelId].currentImageIndex
                   >= modelEvaluations[loops[l].modelId].currentImageIndex]_vars

\* C13: an image carries a score only if its status is completed, in the images
\* of a model and in the images of its results object.
ScoreOnlyIfCompleted ==
    \A m \in ModelIds :
        LET cur == modelEvaluations[m]
        IN /\ \A k \in 1 .. Len(cur.images) :
                 IsDefined(cur.images[k].score) => cur.images[k].status = "completed"
           /\ IsDefined(cur.results)
              => \A k \in 1 .. Len(cur.results[1].images) :
                    IsDefined(cur.results[1].images[k].score)
                    => cur.results[1].images[k].status = "completed"

====
